---- MODULE Spec2Model ----
(***************************************************************************)
(* LLMPlotBot: the per-target worker loop (src/src/core/task_runner.py),   *)
(* the connector session it drives (src/src/core/model_connector.py) and   *)
(* the lock-protected result store (src/src/core/writer.py,                *)
(* src/src/util/file_lock.py).                                             *)
(*                                                                         *)
(* Spec      : one worker thread of TaskRunner with the shared shutdown    *)
(*             event set by the environment at any moment.                 *)
(* SpecStore : writer processes persisting records of one identifier       *)
(*             through FileLock, the temp file and os.replace.             *)
(* SpecMerge : records merged one after another into one result document.  *)
(* SpecFlush : one ResultWriter buffering and flushing while another       *)
(*             process holds, releases or abandons the lock                *)
(*             (SpecFlushFair: time passes and the writer keeps running).  *)
(* SpecPlan  : BatchPlanner.build over existing results, the tasks run,    *)
(*             and the next build (src/src/core/batch_planner.py).         *)
(* SpecConn  : one ModelConnector called through its public methods.       *)
(* SpecShut  : the end of a run: the main thread, the signal handler, the  *)
(*             periodic reporter thread and a worker around the locks of   *)
(*             ResultWriter and MetricsSummaryReporter (SpecShutFair:      *)
(*             every thread that can step does).                           *)
(* SpecRun   : TaskRunner.run with one worker thread per target; a send    *)
(*             may raise (SpecRunFair: every thread keeps running).        *)
(* SpecParse : one reply to one batch, from the parsed objects to the      *)
(*             items written and retried.                                  *)
(* SpecMetrics : worker threads in _record_task_metrics and the            *)
(*             MetricsCollector, then its finalization.                    *)
(* SpecPool  : the job-queue worker pool with its checkpoints, a shutdown  *)
(*             trigger, and the restart that recovers interrupted jobs     *)
(*             (src/src/llmplotbot/core/worker_pool.py, job_manager.py).   *)
(* SpecExtract : one reply body through _extract_response_entries and the  *)
(*             repair cascade.                                             *)
(* SpecFinal : MetricsSummaryReporter and MetricsCollector under calls of  *)
(*             two threads, finalize among them.                           *)
(* SpecFair  : Spec with a worker thread that keeps running.               *)
(***************************************************************************)
EXTENDS Integers, Sequences, FiniteSets, TLC

\* ------------------------------------------------------------------ bounds
NTasks == 3
MaxRetryLimit == 2
MaxBatchSize == 3
MaxInterval == 2
NWriters == 3
StaleSeconds == 2
LockTimeout == 1
MaxTime == 3
FlushRetryLimit == 1
MaxCrashes == 1

\* ModelConnector._history_limit
HistoryLimit == 50

Tasks == 1..NTasks

Max(a, b) == IF a >= b THEN a ELSE b
Min(a, b) == IF a <= b THEN a ELSE b

RECURSIVE SeqOfRange(_, _)
SeqOfRange(lo, hi) == IF lo > hi THEN << >> ELSE << lo >> \o SeqOfRange(lo + 1, hi)

SeqSet(s) == { s[i] : i \in 1..Len(s) }

VARIABLES
  \* ---- TaskRunner configuration and the shared event
  retry_limit, max_batch_size, shutdown,
  \* ---- locals of _process_model_tasks
  pc, pending, batch, responses, retry_queue, still_pending, ridx,
  attempts, inStates, current_batch_size, success_streak, popped_error,
  \* ---- ModelConnector
  compliance_interval, active, history, headline_counter, request_error,
  manual_reminders, auto_reminders,
  \* ---- effects: writer.write calls and _record_task_metrics outcomes
  written, succ, fail,
  \* ---- history variables of the run (observation only)
  tries, requests, reqAtShutdown, flagAt, gotRecord, lastB, prevB,
  \* ---- result store of one identifier: clock, lock file, <id>.json, <id>.json.tmp
  now, lock, doc, tmp,
  \* ---- writer processes inside ResultWriter._write_batch / _persist_records
  wpc, wkey, deadline, attempts_remaining, local, fd, acquiredAt,
  \* ---- history variable: some live holder kept the lock for stale_seconds
  overheld,
  \* ---- merge of records into one result file: the file, the records written
  \* ---- so far, the document after each write, and the document the last two
  \* ---- writes give in the opposite order
  mfile, mlog, mdocs, mswap,
  \* ---- the "title" entry of the same file as llmplotbot.results keeps it
  mtitle,
  \* ---- one ResultWriter and its buffer: configuration, buffer, the locals of
  \* ---- _flush_locked and _write_batch, the position of the calling thread
  strategy, flush_retry_limit, buffer, since_flush, fpend, grouped, failed,
  fcur, fattempts, wait, fpc,
  \* ---- the lock file and result file of each identifier, and the other
  \* ---- process that may hold the lock
  flocks, holder, fdoc,
  \* ---- history variables of the writer (observation only)
  nwrites, persisted, acq,
  \* ---- planning: the entries of the result files, the titles index, the model
  \* ---- names, the per-model test limit, the plan, the tasks a run has
  \* ---- completed, and the stage of the pipeline
  pentries, ptitles, pmodels, plimit, plan, pdone, pphase,
  \* ---- one ModelConnector driven through its public methods: the session,
  \* ---- the number of entries ever appended (entries are numbered as they are
  \* ---- appended), the automatic reminders of the current session, and the
  \* ---- call before the current state (the last three for observation only)
  c_interval, c_active, c_history, c_counter, c_serial, session_auto, cops, clast,
  \* ---- the end of a run: the reporter's configuration, the shutdown event,
  \* ---- the reporter's stop event, lock and flags, the writer's lock, the
  \* ---- position of the main thread, the signal handlers running on top of it
  \* ---- (innermost last), of the periodic thread and of one worker thread
  summary_every_seconds, summary_every_tasks, shutdown_event, stop_event,
  reporter_lock, writer_lock, finalized, signal_snapshot_emitted,
  mainpc, handlers, periodicpc, workerpc, wleft,
  \* ---- observation only: signals delivered, snapshots and final summaries
  signals, snapshots, finals,
  \* ---- TaskRunner.run over several targets: the main thread and its loop
  \* ---- index, and per target the worker thread, its pending tasks, the
  \* ---- re-queues it may still make, its connector's session and history,
  \* ---- and (observation only) threads started, close_session calls, the
  \* ---- exception raised, requests in flight, batches sent and decided
  run_shutdown, run_main, run_idx, run_logged,
  tpc, tpending, tbudget, tbatch, tsession, thistory,
  tthreads, tcloses, traised, tinflight, tsent, tdecided,
  \* ---- one reply to one batch: whether the language check is on, the number
  \* ---- of headlines, the parsed objects, what send_batch returns, its warning
  \* ---- counter, and the items the worker retries and writes
  sb_language, sb_headlines, sb_entries, sb_results, sb_returned, sb_warnings,
  sb_retry, sb_written, sb_pc,
  \* ---- the statistics of TaskRunner and the MetricsCollector, and for each
  \* ---- worker thread its place in _record_task_metrics, the tasks it has yet
  \* ---- to finalize, the outcome in hand, and its calls and appended records
  model_aliases, stats_lock, stats, per_model, collector_records, total_recorded,
  collector_finalized, rpc, rleft, rsuccess, rcalls, rappended,
  \* ---- the job pool: the checkpoint cadence, the shutdown event, the status
  \* ---- column of the jobs table, each worker's place, job, model index,
  \* ---- successes, whether the shutdown cut its job short and the pending
  \* ---- count it read; the pool's counters, the checkpoint manager's counter
  \* ---- and timer, the checkpoints written, the run, the jobs ever finished
  jobs_per_checkpoint, interval_seconds, pool_shutdown, job_status, ppc, pjob,
  pidx, psucc, pcut, ppending, pool_completed, pool_failed,
  processed_since_checkpoint, ck_elapsed, checkpoints, pruns, pfinished,
  \* ---- one reply in _extract_response_entries: what json.loads makes of the
  \* ---- body, whether the envelope holds the content, the content, the result
  ex_raw, ex_envelope, ex_content, ex_result, ex_pc,
  \* ---- the summary reporter and the collector under calls of two threads:
  \* ---- their fields, what was written, each caller's position and return
  fz_every, fz_lock, fz_finalized, fz_final_summary, fz_emitted, fz_cfinalized,
  fz_records, fz_total, fz_last_count, fz_flushed, fz_written, fz_pc, fz_after,
  fz_arg, fz_ret, fz_calls, fz_done

runnerVars == << retry_limit, max_batch_size, shutdown, pc, pending, batch,
                 responses, retry_queue, still_pending, ridx, attempts, inStates,
                 current_batch_size, success_streak, popped_error,
                 compliance_interval, active, history, headline_counter,
                 request_error, manual_reminders, auto_reminders,
                 written, succ, fail,
                 tries, requests, reqAtShutdown, flagAt, gotRecord, lastB, prevB >>

storeVars == << now, lock, doc, tmp, wpc, wkey, deadline, attempts_remaining,
               local, fd, acquiredAt, overheld >>

mergeVars == << mfile, mlog, mdocs, mswap, mtitle >>

flushVars == << strategy, flush_retry_limit, buffer, since_flush, fpend, grouped,
               failed, fcur, fattempts, wait, fpc, flocks, holder, fdoc,
               nwrites, persisted, acq >>

planVars == << pentries, ptitles, pmodels, plimit, plan, pdone, pphase >>

connVars == << c_interval, c_active, c_history, c_counter, c_serial, session_auto,
              cops, clast >>

shutVars == << summary_every_seconds, summary_every_tasks, shutdown_event,
              stop_event, reporter_lock, writer_lock, finalized,
              signal_snapshot_emitted, mainpc, handlers, periodicpc, workerpc,
              wleft, signals, snapshots, finals >>

runVars == << run_shutdown, run_main, run_idx, run_logged, tpc, tpending, tbudget,
             tbatch, tsession, thistory, tthreads, tcloses, traised, tinflight,
             tsent, tdecided >>

parseVars == << sb_language, sb_headlines, sb_entries, sb_results, sb_returned,
               sb_warnings, sb_retry, sb_written, sb_pc >>

metricVars == << model_aliases, stats_lock, stats, per_model, collector_records,
                total_recorded, collector_finalized, rpc, rleft, rsuccess, rcalls,
                rappended >>

poolVars == << jobs_per_checkpoint, interval_seconds, pool_shutdown, job_status,
              ppc, pjob, pidx, psucc, pcut, ppending, pool_completed, pool_failed,
              processed_since_checkpoint, ck_elapsed, checkpoints, pruns,
              pfinished >>

extractVars == << ex_raw, ex_envelope, ex_content, ex_result, ex_pc >>

finalVars == << fz_every, fz_lock, fz_finalized, fz_final_summary, fz_emitted,
               fz_cfinalized, fz_records, fz_total, fz_last_count, fz_flushed,
               fz_written, fz_pc, fz_after, fz_arg, fz_ret, fz_calls, fz_done >>

auxVars == << mergeVars, flushVars, planVars, connVars, shutVars, runVars,
             parseVars, metricVars, poolVars, extractVars, finalVars >>

vars == << runnerVars, storeVars, auxVars >>

\* ------------------------------------------------------------ connector
Reminder == "reminder"

\* variant: the entries past the cap are cut, the oldest kept
PruneHistory_KeepOldest(h) ==
  IF Len(h) > HistoryLimit THEN SubSeq(h, 1, HistoryLimit) ELSE h

\* ModelConnector._prune_history
PruneHistory(h) ==
  IF HistoryLimit <= 0 THEN h
  ELSE LET overflow == Len(h) - HistoryLimit
       IN IF overflow > 0 THEN SubSeq(h, overflow + 1, Len(h)) ELSE h

\* ModelConnector._maybe_send_auto_compliance_reminder: whether it appends
AutoReminderDue(isActive, interval, counter) ==
  /\ isActive
  /\ interval > 0
  /\ counter # 0
  /\ counter % interval = 0

\* ModelConnector.reinforce_compliance: the history after the call
ReinforcedHistory(isActive, h) ==
  IF isActive THEN PruneHistory(Append(h, Reminder)) ELSE h

\* ------------------------------------------------------------ worker loop
NoBatch == [kind |-> "none", size |-> 0, n |-> 0, retries |-> 0, grew |-> FALSE,
            routed |-> FALSE, requeued |-> 0, decided |-> FALSE,
            manual |-> 0, hist |-> << >>]

\* TaskRunner.__init__: retry_limit = max(0, retry_limit), batch_size = max(1, ..)
InitRunner ==
  /\ retry_limit \in 0..MaxRetryLimit
  /\ max_batch_size \in 1..MaxBatchSize
  /\ compliance_interval \in {0, MaxInterval}
  /\ shutdown = FALSE
  /\ pc = "start"
  /\ pending = << >>
  /\ batch = << >>
  /\ responses = << >>
  /\ retry_queue = << >>
  /\ still_pending = << >>
  /\ ridx = 1
  /\ attempts = [t \in Tasks |-> 0]
  /\ inStates = {}
  /\ current_batch_size = max_batch_size
  /\ success_streak = 0
  /\ popped_error = "none"
  /\ active = FALSE
  /\ history = << >>
  /\ headline_counter = 0
  /\ request_error = "none"
  /\ manual_reminders = 0
  /\ auto_reminders = 0
  /\ written = [t \in Tasks |-> 0]
  /\ succ = [t \in Tasks |-> 0]
  /\ fail = [t \in Tasks |-> 0]
  /\ tries = [t \in Tasks |-> 0]
  /\ requests = 0
  /\ reqAtShutdown = 0
  /\ flagAt = "unset"
  /\ gotRecord = {}
  /\ lastB = NoBatch
  /\ prevB = NoBatch

\* shutdown_event.set() by the signal handler, at any moment of the run
SetShutdown ==
  /\ ~shutdown
  /\ shutdown' = TRUE
  /\ reqAtShutdown' = requests
  /\ flagAt' = IF pc = "retry" /\ ridx > 1 THEN "between_retries" ELSE pc
  /\ UNCHANGED << retry_limit, max_batch_size, pc, pending, batch, responses,
                  retry_queue, still_pending, ridx, attempts, inStates,
                  current_batch_size, success_streak, popped_error,
                  compliance_interval, active, history, headline_counter,
                  request_error, manual_reminders, auto_reminders,
                  written, succ, fail, tries, requests, gotRecord, lastB, prevB >>
  /\ UNCHANGED << storeVars, auxVars >>

\* _run_model_queue up to the while loop of _process_model_tasks
StartWorker ==
  /\ pc = "start"
  /\ IF shutdown
       THEN /\ pc' = "done"
            /\ UNCHANGED << active, fail, pending >>
       ELSE IF retry_limit <= 0
         THEN \* every task is recorded as failed with 0 attempts; close_session
              /\ fail' = [t \in Tasks |-> fail[t] + 1]
              /\ active' = FALSE
              /\ pc' = "done"
              /\ UNCHANGED pending
         ELSE /\ pending' = SeqOfRange(1, NTasks)
              /\ active' = TRUE
              /\ pc' = "top"
              /\ UNCHANGED fail
  /\ UNCHANGED << retry_limit, max_batch_size, shutdown, batch, responses,
                  retry_queue, still_pending, ridx, attempts, inStates,
                  current_batch_size, success_streak, popped_error,
                  compliance_interval, history, headline_counter,
                  request_error, manual_reminders, auto_reminders,
                  written, succ, tries, requests, reqAtShutdown, flagAt,
                  gotRecord, lastB, prevB >>
  /\ UNCHANGED << storeVars, auxVars >>

\* variant: the loop head ignores the shutdown flag
LoopContinues_NoFlag(pend, flag) == pend # << >>

\* whether the loop head lets the worker go on (while pending / shutdown check)
LoopContinues(pend, flag) == pend # << >> /\ ~flag

\* variant: the whole queue goes out as one batch
BatchLen_All(cur, n) == Max(1, n)

\* batch_size = max(1, min(current_batch_size, len(pending)))
BatchLen(cur, n) == Max(1, Min(cur, n))

\* loop head: while pending / shutdown check / slicing of the batch / states
LoopTop ==
  /\ pc = "top"
  /\ IF LoopContinues(pending, shutdown)
       THEN LET k == BatchLen(current_batch_size, Len(pending))
            IN /\ batch' = SubSeq(pending, 1, k)
               /\ pending' = SubSeq(pending, k + 1, Len(pending))
               /\ inStates' = inStates \cup SeqSet(SubSeq(pending, 1, k))
               /\ pc' = "send"
       ELSE /\ pc' = "final"
            /\ UNCHANGED << batch, pending, inStates >>
  /\ UNCHANGED << retry_limit, max_batch_size, shutdown, responses,
                  retry_queue, still_pending, ridx, attempts,
                  current_batch_size, success_streak, popped_error,
                  compliance_interval, active, history, headline_counter,
                  request_error, manual_reminders, auto_reminders,
                  written, succ, fail, tries, requests, reqAtShutdown, flagAt,
                  gotRecord, lastB, prevB >>
  /\ UNCHANGED << storeVars, auxVars >>

AllNone(n) == [i \in 1..n |-> FALSE]
CountTrue(r) == Cardinality({ i \in 1..Len(r) : r[i] })

\* the history after a send_batch call that recovered `ok` records
HistoryAfterSend(h, ok) ==
  IF ok > 0 THEN PruneHistory(h \o << "user", "assistant" >>) ELSE h

\* ModelConnector.send_batch, with the runner's alignment of the reply
\* variant: the HTTP error is stored as the transport error is
LastRequestError_OneKind(kind) ==
  IF kind \in {"transport", "http"} THEN "transport" ELSE "none"

\* send_batch: _last_request_error is cleared before the request, then holds
\* the RequestException of a failed post or the HTTPError of a status >= 400
LastRequestError(kind) ==
  IF kind \in {"transport", "http"} THEN kind ELSE "none"

SendBatch ==
  /\ pc = "send"
  /\ \E kind \in {"transport", "http", "parse", "entries"} :
     \E resp \in [1..Len(batch) -> BOOLEAN] :
       /\ kind # "entries" => resp = AllNone(Len(batch))
       /\ LET due == AutoReminderDue(active, compliance_interval, headline_counter)
              h0 == IF due THEN PruneHistory(Append(history, Reminder)) ELSE history
              ok == CountTrue(resp)
          IN /\ auto_reminders' = auto_reminders + (IF due THEN 1 ELSE 0)
             /\ request_error' = LastRequestError(kind)
             /\ responses' = resp
             /\ history' = HistoryAfterSend(h0, ok)
             /\ headline_counter' = headline_counter + ok
             /\ gotRecord' = gotRecord \cup { batch[i] : i \in { j \in 1..Len(batch) : resp[j] } }
             /\ prevB' = lastB
             /\ lastB' = [NoBatch EXCEPT !.kind = kind,
                                         !.size = current_batch_size,
                                         !.n = Len(batch),
                                         !.manual = manual_reminders,
                                         !.hist = HistoryAfterSend(h0, ok)]
  /\ requests' = requests + 1
  /\ pc' = "route"
  /\ UNCHANGED << retry_limit, max_batch_size, shutdown, pending, batch,
                  retry_queue, still_pending, ridx, attempts, inStates,
                  current_batch_size, success_streak, popped_error,
                  compliance_interval, active, manual_reminders,
                  written, succ, fail, tries, reqAtShutdown, flagAt >>
  /\ UNCHANGED << storeVars, auxVars >>

\* the retry_queue of a routed batch: the tasks whose payload is None, in order
RECURSIVE RetryQueueOf(_, _)
RetryQueueOf(b, r) ==
  IF b = << >> THEN << >>
  ELSE (IF r[1] THEN << >> ELSE << b[1] >>) \o RetryQueueOf(Tail(b), Tail(r))

\* variant: growth after a single batch without retries
GrowNow_AfterOne(streak, cur, maxSize, err) == streak >= 1 /\ cur < maxSize /\ err = "none"

\* the growth rule after a batch without retries
GrowNow(streak, cur, maxSize, err) == streak >= 2 /\ cur < maxSize /\ err = "none"

\* routing of the replies: attempts, writer.write, _finalize(task, True),
\* pop_last_request_error and, for a batch without retries, the growth step
Route ==
  /\ pc = "route"
  /\ LET okSet == { batch[i] : i \in { j \in 1..Len(batch) : responses[j] } }
         rq == RetryQueueOf(batch, responses)
         grow == rq = << >> /\ GrowNow(success_streak + 1, current_batch_size,
                                        max_batch_size, request_error)
     IN /\ attempts' = [t \in Tasks |-> IF t \in SeqSet(batch) THEN attempts[t] + 1
                                          ELSE attempts[t]]
        /\ tries' = [t \in Tasks |-> IF t \in SeqSet(batch) THEN tries[t] + 1
                                       ELSE tries[t]]
        /\ written' = [t \in Tasks |-> IF t \in okSet THEN written[t] + 1 ELSE written[t]]
        /\ succ' = [t \in Tasks |-> IF t \in okSet THEN succ[t] + 1 ELSE succ[t]]
        /\ inStates' = inStates \ okSet
        /\ retry_queue' = rq
        /\ popped_error' = request_error
        /\ request_error' = "none"
        /\ still_pending' = << >>
        /\ ridx' = 1
        /\ IF rq = << >>
             THEN /\ current_batch_size' =
                       IF grow THEN Min(max_batch_size, current_batch_size + 1)
                       ELSE current_batch_size
                  /\ success_streak' = IF grow THEN 0 ELSE success_streak + 1
                  /\ pc' = "top"
             ELSE /\ success_streak' = 0
                  /\ current_batch_size' = current_batch_size
                  /\ pc' = "retry"
        /\ lastB' = [lastB EXCEPT !.retries = Len(rq), !.grew = grow, !.routed = TRUE,
                                  !.decided = (rq = << >>)]
  /\ UNCHANGED << retry_limit, max_batch_size, shutdown, pending, batch, responses,
                  compliance_interval, active, history, headline_counter,
                  manual_reminders, auto_reminders, fail, requests,
                  reqAtShutdown, flagAt, gotRecord, prevB >>
  /\ UNCHANGED << storeVars, auxVars >>

\* variant: a failed task is never tried again
ShouldRetry_Never(att, limit) == FALSE

\* variant: one attempt too many
ShouldRetry_OffByOne(att, limit) == att <= limit

\* the retry decision for one task: attempts < retry_limit
ShouldRetry(att, limit) == att < limit

\* one turn of the loop over retry_queue
RetryDecide ==
  /\ pc = "retry"
  /\ ridx <= Len(retry_queue)
  /\ LET task == retry_queue[ridx]
         att == IF task \in inStates THEN attempts[task] ELSE 0
     IN IF ~shutdown /\ ShouldRetry(att, retry_limit)
          THEN /\ still_pending' = Append(still_pending, task)
               /\ UNCHANGED << fail, inStates >>
          ELSE \* _finalize(task, False)
               /\ fail' = [fail EXCEPT ![task] = @ + 1]
               /\ inStates' = inStates \ {task}
               /\ UNCHANGED still_pending
  /\ ridx' = ridx + 1
  /\ pc' = IF ridx = Len(retry_queue) THEN "requeue" ELSE "retry"
  /\ UNCHANGED << retry_limit, max_batch_size, shutdown, pending, batch, responses,
                  retry_queue, attempts, current_batch_size, success_streak,
                  popped_error, compliance_interval, active, history,
                  headline_counter, request_error, manual_reminders,
                  auto_reminders, written, succ, tries, requests,
                  reqAtShutdown, flagAt, gotRecord, lastB, prevB >>
  /\ UNCHANGED << storeVars, auxVars >>

\* variant: any wholly failed batch shrinks, request error or not
ShrinkNow_AnyFailure(err, nRetry, nBatch, cur) == nRetry = nBatch /\ cur > 1

\* whether the failed batch shrinks the batch size
ShrinkNow(err, nRetry, nBatch, cur) == err # "none" /\ nRetry = nBatch /\ cur > 1

\* new_size = max(1, cur // 2), or cur - 1 when that changes nothing
ShrunkSize(cur) ==
  LET half == Max(1, cur \div 2)
  IN IF half = cur THEN Max(1, cur - 1) ELSE half

\* variant: retried tasks go to the back of the queue
Requeued_AtBack(still, pend) == pend \o still

\* pending = still_pending + pending
Requeued(still, pend) == still \o pend

\* after the retry decisions: shrink, reinforce_compliance, re-queue
Requeue ==
  /\ pc = "requeue"
  /\ IF still_pending # << >> /\ ~shutdown
       THEN /\ current_batch_size' =
                 IF ShrinkNow(popped_error, Len(retry_queue), Len(batch),
                              current_batch_size)
                 THEN ShrunkSize(current_batch_size)
                 ELSE current_batch_size
            /\ history' = ReinforcedHistory(active, history)
            /\ manual_reminders' = manual_reminders + (IF active THEN 1 ELSE 0)
            /\ pending' = Requeued(still_pending, pending)
            /\ lastB' = [lastB EXCEPT !.requeued = Len(still_pending), !.decided = TRUE]
       ELSE /\ lastB' = [lastB EXCEPT !.decided = TRUE]
            /\ UNCHANGED << current_batch_size, history, manual_reminders, pending >>
  /\ pc' = "top"
  /\ UNCHANGED << retry_limit, max_batch_size, shutdown, batch, responses,
                  retry_queue, still_pending, ridx, attempts, inStates,
                  success_streak, popped_error, compliance_interval, active,
                  headline_counter, request_error, auto_reminders,
                  written, succ, fail, tries, requests, reqAtShutdown, flagAt,
                  gotRecord, prevB >>
  /\ UNCHANGED << storeVars, auxVars >>

\* variant: no closing sweep
SweepSet_None(flag, st, att) == {}

\* the states the closing sweep finalizes as failed
SweepSet(flag, st, att) == IF flag THEN { t \in st : att[t] # 0 } ELSE {}

\* after the loop: the shutdown sweep over states, then close_session
FinalSweep ==
  /\ pc = "final"
  /\ LET sweep == SweepSet(shutdown, inStates, attempts)
     IN /\ fail' = [t \in Tasks |-> IF t \in sweep THEN fail[t] + 1 ELSE fail[t]]
        /\ inStates' = inStates \ sweep
  /\ active' = FALSE
  /\ history' = << >>
  /\ headline_counter' = 0
  /\ pc' = "done"
  /\ UNCHANGED << retry_limit, max_batch_size, shutdown, pending, batch, responses,
                  retry_queue, still_pending, ridx, attempts,
                  current_batch_size, success_streak, popped_error,
                  compliance_interval, request_error, manual_reminders,
                  auto_reminders, written, succ, tries, requests,
                  reqAtShutdown, flagAt, gotRecord, lastB, prevB >>
  /\ UNCHANGED << storeVars, auxVars >>

NextRunner ==
  \/ SetShutdown
  \/ StartWorker
  \/ LoopTop
  \/ SendBatch
  \/ Route
  \/ RetryDecide
  \/ Requeue
  \/ FinalSweep

\* ------------------------------------------------------------ result store
Writers == 1..NWriters
Targets == {"m1", "m2"}
Hashes == {"h1", "h2"}
Keys == Targets \X Hashes
\* the (target, prompt_hash) pairs the concurrent writer processes write
WriterKeys == Targets \X {"h1"}
NoRec == 0
\* the title the worker puts on every payload of the identifier (task.title)
TaskTitle == "T"

EmptyDoc == [title |-> "", results |-> [k \in Keys |-> NoRec]]
NoFile == [state |-> "absent", data |-> EmptyDoc, dumped |-> FALSE]
NoLock == [exists |-> FALSE, mtime |-> 0, pid |-> 0]

\* variant: a record's title replaces the title of the document
MergeOne_LastTitle(d, key, payload, title) ==
  [title |-> IF title # "" THEN title ELSE d.title,
   results |-> [d.results EXCEPT ![key] = payload]]

\* variant: writing a record that is already there removes it
MergeOne_Toggle(d, key, payload, title) ==
  [title |-> IF title # "" /\ d.title = "" THEN title ELSE d.title,
   results |-> [d.results EXCEPT ![key] = IF @ = payload THEN NoRec ELSE payload]]

\* variant: the written record replaces the whole results mapping
MergeOne_Fresh(d, key, payload, title) ==
  [title |-> IF title # "" /\ d.title = "" THEN title ELSE d.title,
   results |-> [k \in DOMAIN d.results |-> IF k = key THEN payload ELSE NoRec]]

\* _persist_records: one record merged into the loaded document
MergeOne(d, key, payload, title) ==
  [title |-> IF title # "" /\ d.title = "" THEN title ELSE d.title,
   results |-> [d.results EXCEPT ![key] = payload]]

\* _persist_records: the records of one group merged in order
RECURSIVE MergeRecords(_, _)
MergeRecords(d, records) ==
  IF records = << >> THEN d
  ELSE MergeRecords(MergeOne(d, records[1].key, records[1].payload, records[1].title),
                    Tail(records))

\* _persist_records: the existing document; missing or unreadable counts as empty
LoadDoc(f) == IF f.state = "complete" THEN f.data ELSE EmptyDoc

\* FileLock._is_stale for an existing lock file
IsStaleAge(t, mtime) == t - mtime >= StaleSeconds

\* a writer between a successful acquire and the end of its release
InCS(w) == wpc[w] \in {"load", "tmpopen", "dump", "replace", "release", "release_err"}

InitStore ==
  /\ now = 0
  /\ lock = NoLock
  /\ doc = NoFile
  /\ tmp = NoFile
  /\ wpc = [w \in Writers |-> "idle"]
  /\ wkey = [w \in Writers |-> << "m1", "h1" >>]
  /\ deadline = [w \in Writers |-> 0]
  /\ attempts_remaining = [w \in Writers |-> 0]
  /\ local = [w \in Writers |-> EmptyDoc]
  /\ fd = [w \in Writers |-> "none"]
  /\ acquiredAt = [w \in Writers |-> 0]
  /\ overheld = FALSE

\* time passes
Tick ==
  /\ now < MaxTime
  /\ now' = now + 1
  /\ overheld' = (overheld \/ \E w \in Writers :
                                 InCS(w) /\ now + 1 - acquiredAt[w] >= StaleSeconds)
  /\ UNCHANGED << lock, doc, tmp, wpc, wkey, deadline, attempts_remaining,
                  local, fd, acquiredAt >>
  /\ UNCHANGED << runnerVars, auxVars >>

\* ResultWriter.write -> _flush_locked -> _write_batch: first acquisition attempt
\* (the writer processes are alike, so they are started in the order of their
\* numbers)
BeginWrite(w) ==
  /\ wpc[w] = "idle"
  /\ \A x \in Writers : x < w => wpc[x] # "idle"
  /\ \E k \in WriterKeys : wkey' = [wkey EXCEPT ![w] = k]
  /\ attempts_remaining' = [attempts_remaining EXCEPT ![w] = FlushRetryLimit - 1]
  /\ deadline' = [deadline EXCEPT ![w] = now + LockTimeout]
  /\ wpc' = [wpc EXCEPT ![w] = "open"]
  /\ UNCHANGED << now, lock, doc, tmp, local, fd, acquiredAt, overheld >>
  /\ UNCHANGED << runnerVars, auxVars >>

\* FileLock.acquire: os.open(path, O_CREAT | O_EXCL | O_WRONLY), write the pid
TryCreate(w) ==
  /\ wpc[w] = "open"
  /\ IF ~lock.exists
       THEN /\ lock' = [exists |-> TRUE, mtime |-> now, pid |-> w]
            /\ acquiredAt' = [acquiredAt EXCEPT ![w] = now]
            /\ deadline' = [deadline EXCEPT ![w] = 0]
            /\ wpc' = [wpc EXCEPT ![w] = "load"]
       ELSE /\ wpc' = [wpc EXCEPT ![w] = "stat"]
            /\ UNCHANGED << lock, acquiredAt, deadline >>
  /\ UNCHANGED << now, doc, tmp, wkey, attempts_remaining, local, fd, overheld >>
  /\ UNCHANGED << runnerVars, auxVars >>

\* FileLock._is_stale for the lock file as it is now (a missing file is not stale)
LockIsStale(l, t) == l.exists /\ IsStaleAge(t, l.mtime)

\* FileLock.acquire after FileExistsError: _is_stale, else the deadline test
\* and the sleep; on FileLockTimeout the retry or the give-up of _write_batch
IsStale(w) ==
  /\ wpc[w] = "stat"
  /\ IF LockIsStale(lock, now)
       THEN /\ wpc' = [wpc EXCEPT ![w] = "clear"]
            /\ UNCHANGED << attempts_remaining, deadline >>
       ELSE IF now >= deadline[w]
         THEN IF attempts_remaining[w] = 0
                THEN /\ wpc' = [wpc EXCEPT ![w] = "deferred"]
                     /\ deadline' = [deadline EXCEPT ![w] = 0]
                     /\ UNCHANGED attempts_remaining
                ELSE /\ attempts_remaining' = [attempts_remaining EXCEPT ![w] = @ - 1]
                     /\ deadline' = [deadline EXCEPT ![w] = now + LockTimeout]
                     /\ wpc' = [wpc EXCEPT ![w] = "open"]
         ELSE /\ wpc' = [wpc EXCEPT ![w] = "open"]
              /\ UNCHANGED << attempts_remaining, deadline >>
  /\ UNCHANGED << now, lock, doc, tmp, wkey, local, fd, acquiredAt, overheld >>
  /\ UNCHANGED << runnerVars, auxVars >>

\* FileLock._clear_stale: unlink whatever lock file is there now
ClearStale(w) ==
  /\ wpc[w] = "clear"
  /\ lock' = NoLock
  /\ wpc' = [wpc EXCEPT ![w] = "open"]
  /\ UNCHANGED << now, doc, tmp, wkey, deadline, attempts_remaining, local, fd,
                  acquiredAt, overheld >>
  /\ UNCHANGED << runnerVars, auxVars >>

\* _persist_records: load the existing document and merge the record
LoadMerge(w) ==
  /\ wpc[w] = "load"
  /\ local' = [local EXCEPT ![w] =
                 MergeRecords(LoadDoc(doc),
                              << [key |-> wkey[w], payload |-> w, title |-> TaskTitle] >>)]
  /\ wpc' = [wpc EXCEPT ![w] = "tmpopen"]
  /\ UNCHANGED << now, lock, doc, tmp, wkey, deadline, attempts_remaining, fd,
                  acquiredAt, overheld >>
  /\ UNCHANGED << runnerVars, auxVars >>

\* tmp.open("w"): creates the temp file or truncates the one that is there
TmpOpen(w) ==
  /\ wpc[w] = "tmpopen"
  /\ tmp' = [state |-> "partial", data |-> EmptyDoc, dumped |-> FALSE]
  /\ fd' = [fd EXCEPT ![w] = "tmp"]
  /\ wpc' = [wpc EXCEPT ![w] = "dump"]
  /\ UNCHANGED << now, lock, doc, wkey, deadline, attempts_remaining, local,
                  acquiredAt, overheld >>
  /\ UNCHANGED << runnerVars, auxVars >>

\* what json.dump and close leave in the file the descriptor refers to: the
\* writer's document, or a mix when another writer wrote the same file since
\* it was last truncated
Dumped(f, d) ==
  IF f.dumped
    THEN { [state |-> "complete", data |-> d, dumped |-> TRUE],
           [state |-> "partial", data |-> EmptyDoc, dumped |-> TRUE] }
    ELSE { [state |-> "complete", data |-> d, dumped |-> TRUE] }

\* json.dump(ordered_data, f); f.write; close -- through the open descriptor,
\* which follows the file when another writer has renamed it meanwhile
Dump(w) ==
  /\ wpc[w] = "dump"
  /\ IF fd[w] = "tmp"
       THEN /\ tmp' \in Dumped(tmp, local[w])
            /\ UNCHANGED doc
       ELSE IF fd[w] = "path"
         THEN /\ doc' \in Dumped(doc, local[w])
              /\ UNCHANGED tmp
         ELSE UNCHANGED << doc, tmp >>
  /\ fd' = [fd EXCEPT ![w] = "none"]
  /\ local' = [local EXCEPT ![w] = EmptyDoc]
  /\ wpc' = [wpc EXCEPT ![w] = "replace"]
  /\ UNCHANGED << now, lock, wkey, deadline, attempts_remaining,
                  acquiredAt, overheld >>
  /\ UNCHANGED << runnerVars, auxVars >>

\* where an open descriptor points after os.replace(tmp, path)
FdAfterReplace(target) ==
  IF target = "tmp" THEN "path" ELSE IF target = "path" THEN "orphan" ELSE target

\* os.replace(tmp, path); FileNotFoundError when the temp file is gone
Replace(w) ==
  /\ wpc[w] = "replace"
  /\ IF tmp.state # "absent"
       THEN /\ doc' = tmp
            /\ tmp' = NoFile
            /\ fd' = [x \in Writers |-> FdAfterReplace(fd[x])]
            /\ wpc' = [wpc EXCEPT ![w] = "release"]
       ELSE /\ wpc' = [wpc EXCEPT ![w] = "release_err"]
            /\ UNCHANGED << doc, tmp, fd >>
  /\ UNCHANGED << now, lock, wkey, deadline, attempts_remaining, local,
                  acquiredAt, overheld >>
  /\ UNCHANGED << runnerVars, auxVars >>

\* the lock file after FileLock.release: os.unlink(path), whoever created it
Unlinked(l, w) == NoLock

\* FileLock.release (__exit__), then the return or the retry of _write_batch
Release(w) ==
  /\ wpc[w] \in {"release", "release_err"}
  /\ lock' = Unlinked(lock, w)
  /\ acquiredAt' = [acquiredAt EXCEPT ![w] = 0]
  /\ IF wpc[w] = "release"
       THEN /\ wpc' = [wpc EXCEPT ![w] = "done"]
            /\ UNCHANGED << attempts_remaining, deadline >>
       ELSE IF attempts_remaining[w] = 0
         THEN /\ wpc' = [wpc EXCEPT ![w] = "deferred"]
              /\ UNCHANGED << attempts_remaining, deadline >>
         ELSE /\ attempts_remaining' = [attempts_remaining EXCEPT ![w] = @ - 1]
              /\ deadline' = [deadline EXCEPT ![w] = now + LockTimeout]
              /\ wpc' = [wpc EXCEPT ![w] = "open"]
  /\ UNCHANGED << now, doc, tmp, wkey, local, fd, overheld >>
  /\ UNCHANGED << runnerVars, auxVars >>

\* the writer's process is killed inside the critical section; its files stay
\* as they are (a writer killed while it still waits for the lock leaves
\* nothing behind and is a writer that never goes on)
Crash(w) ==
  /\ InCS(w)
  /\ Cardinality({ x \in Writers : wpc[x] = "crashed" }) < MaxCrashes
  /\ wpc' = [wpc EXCEPT ![w] = "crashed"]
  /\ fd' = [fd EXCEPT ![w] = "none"]
  /\ local' = [local EXCEPT ![w] = EmptyDoc]
  /\ acquiredAt' = [acquiredAt EXCEPT ![w] = 0]
  /\ UNCHANGED << now, lock, doc, tmp, wkey, deadline, attempts_remaining,
                  overheld >>
  /\ UNCHANGED << runnerVars, auxVars >>

NextStore ==
  \/ Tick
  \/ \E w \in Writers : BeginWrite(w)
  \/ \E w \in Writers : TryCreate(w)
  \/ \E w \in Writers : IsStale(w)
  \/ \E w \in Writers : ClearStale(w)
  \/ \E w \in Writers : LoadMerge(w)
  \/ \E w \in Writers : TmpOpen(w)
  \/ \E w \in Writers : Dump(w)
  \/ \E w \in Writers : Replace(w)
  \/ \E w \in Writers : Release(w)
  \/ \E w \in Writers : Crash(w)

\* ------------------------------------------------- merge of written records
MaxWrites == 2
Payloads == {1, 2}
Titles == {"", "T", "U"}

Records == [key : Keys, payload : Payloads, title : Titles]

\* the documents a result file may hold before the first write
InitDocs == [title : Titles, results : [Keys -> {NoRec, 1}]]

\* the result file before the first write: missing, unreadable, or a document
InitFiles ==
  {NoFile, [state |-> "partial", data |-> EmptyDoc, dumped |-> FALSE]}
  \cup { [state |-> "complete", data |-> d, dumped |-> FALSE] : d \in InitDocs }

\* llmplotbot.results.ResultWriter._merge: data.setdefault("title", title) for
\* a non-empty title; an entry that is present is kept, empty or not
SetDefaultTitle(entry, title) ==
  IF title # "" /\ ~entry.present THEN [present |-> TRUE, value |-> title] ELSE entry

\* the "title" entry of a result file: a readable document may carry an empty
\* title either as "title": "" (core.writer always writes the key) or by
\* having no such key
TitleEntries(file) ==
  IF file.state # "complete" THEN {[present |-> FALSE, value |-> ""]}
  ELSE IF file.data.title # "" THEN {[present |-> TRUE, value |-> file.data.title]}
  ELSE {[present |-> TRUE, value |-> ""], [present |-> FALSE, value |-> ""]}

InitMerge ==
  /\ mfile \in InitFiles
  /\ mtitle \in TitleEntries(mfile)
  /\ mlog = << >>
  /\ mdocs = << LoadDoc(mfile) >>
  /\ mswap = LoadDoc(mfile)

\* the merge store parked
MergeParked ==
  /\ mfile = NoFile
  /\ mtitle = [present |-> FALSE, value |-> ""]
  /\ mlog = << >>
  /\ mdocs = << EmptyDoc >>
  /\ mswap = EmptyDoc

\* ResultWriter.write of one record with nobody else at the file: load, merge,
\* dump, os.replace; next to it the title as llmplotbot.results would merge it
MWrite ==
  /\ Len(mlog) < MaxWrites
  /\ \E r \in Records :
       LET before == LoadDoc(mfile)
           after == MergeRecords(before, << r >>)
       IN /\ mfile' = [state |-> "complete", data |-> after, dumped |-> TRUE]
          /\ mtitle' = SetDefaultTitle(mtitle, r.title)
          /\ mlog' = Append(mlog, r)
          /\ mdocs' = Append(mdocs, after)
          /\ mswap' = IF mlog = << >> THEN after
                      ELSE MergeRecords(MergeRecords(mdocs[Len(mdocs) - 1], << r >>),
                                        << mlog[Len(mlog)] >>)
  /\ UNCHANGED << runnerVars, storeVars, flushVars, planVars, connVars, shutVars,
                  runVars, parseVars, metricVars, poolVars,
                  extractVars, finalVars >>

NextMerge == MWrite

\* ------------------------------------------- ResultWriter buffer and flush
MaxCalls == 3
MaxFlushRetry == 2
FlushInterval == 2
FlushSeconds == 2

Idents == {"x", "y"}
\* the identifiers another process writes as well
Contended == {"x"}

FreeLock == [exists |-> FALSE, age |-> 0, owner |-> "none"]

\* the (id, ...) tuples of the buffer: identifier and the number of the write
\* call that queued the record
RecordsOf(seq, i) == SelectSeq(seq, LAMBDA r : r.id = i)

\* grouped = {}; for item in pending: grouped.setdefault(item[0], []).append(item)
\* -- the identifiers in the order of their first record
RECURSIVE GroupOrder(_)
GroupOrder(seq) ==
  IF seq = << >> THEN << >>
  ELSE << seq[1].id >> \o GroupOrder(SelectSeq(Tail(seq), LAMBDA r : r.id # seq[1].id))

\* variant: the failed records of a flush are dropped
BufferAfterFlush_Drop(fl, buf) == buf

\* self.buffer = failed + self.buffer
BufferAfterFlush(fl, buf) == fl \o buf

\* _write_batch on FileLockTimeout: `if attempts_remaining == 0: return 0`
GiveUp(rem) == rem = 0

\* variant: no lock file is ever taken over
LockStale_Never(l) == FALSE

\* FileLock._is_stale: the file is there and its age has reached stale_seconds
LockStale(l) == l.exists /\ l.age >= StaleSeconds

InitFlush ==
  /\ strategy \in {"immediate", "batched"}
  /\ flush_retry_limit \in 1..MaxFlushRetry
  /\ buffer = << >>
  /\ since_flush = 0
  /\ fpend = << >>
  /\ grouped = << >>
  /\ failed = << >>
  /\ fcur = "x"
  /\ fattempts = 0
  /\ wait = 0
  /\ fpc = "idle"
  /\ flocks = [i \in Idents |-> FreeLock]
  /\ holder = [i \in Idents |-> "none"]
  /\ fdoc = [i \in Idents |-> 0]
  /\ nwrites = 0
  /\ persisted = {}
  /\ acq = 0

\* the writer parked
FlushParked ==
  /\ InitFlush
  /\ strategy = "immediate"
  /\ flush_retry_limit = 1

flushRest == << runnerVars, storeVars, mergeVars, planVars, connVars, shutVars,
               runVars, parseVars, metricVars, poolVars, extractVars,
  finalVars >>

\* _flush_locked up to the loop over the groups, for the buffer `buf`
StartFlush(buf) ==
  /\ fpend' = buf
  /\ buffer' = << >>
  /\ since_flush' = 0
  /\ failed' = << >>
  /\ grouped' = GroupOrder(buf)
  /\ acq' = 0
  /\ fpc' = "group"

\* variant: only the size of the buffer triggers a flush
should_flush_SizeOnly(len, elapsed) == len >= FlushInterval

\* write: len(self.buffer) >= self.flush_interval
\*        or (time.time() - self.last_flush) > self.flush_seconds
should_flush(len, elapsed) == len >= FlushInterval \/ elapsed > FlushSeconds

\* ResultWriter.write: queue the record, flush as the strategy says
FWrite(i) ==
  /\ fpc = "idle"
  /\ nwrites < MaxCalls
  /\ nwrites' = nwrites + 1
  /\ LET buf == Append(buffer, [id |-> i, n |-> nwrites + 1])
     IN IF strategy = "immediate" \/ should_flush(Len(buf), since_flush)
          THEN StartFlush(buf)
          ELSE /\ buffer' = buf
                  /\ UNCHANGED << since_flush, fpend, grouped, failed, acq, fpc >>
  /\ UNCHANGED << strategy, flush_retry_limit, fcur, fattempts, wait, flocks,
                  holder, fdoc, persisted >>
  /\ UNCHANGED flushRest

\* ResultWriter.flush with records in the buffer
FFlush ==
  /\ fpc = "idle"
  /\ buffer # << >>
  /\ StartFlush(buffer)
  /\ UNCHANGED << strategy, flush_retry_limit, fcur, fattempts, wait, flocks,
                  holder, fdoc, nwrites, persisted >>
  /\ UNCHANGED flushRest

\* _flush_locked: the next group, or the end of the flush and the return
NextGroup ==
  /\ fpc = "group"
  /\ IF grouped = << >>
       THEN /\ buffer' = BufferAfterFlush(failed, buffer)
            /\ fpend' = << >>
            /\ failed' = << >>
            /\ fpc' = "idle"
            /\ UNCHANGED << grouped, fcur, fattempts >>
            /\ acq' = 0
       ELSE /\ fcur' = Head(grouped)
            /\ grouped' = Tail(grouped)
            /\ fattempts' = flush_retry_limit
            /\ acq' = 0
            /\ fpc' = "attempt"
            /\ UNCHANGED << buffer, fpend, failed >>
  /\ UNCHANGED << strategy, flush_retry_limit, since_flush, wait, flocks, holder,
                  fdoc, nwrites, persisted >>
  /\ UNCHANGED flushRest

\* _write_batch: one turn of `while attempts_remaining > 0`, entering
\* FileLock.acquire (deadline = time.time() + timeout); `return 0` after the loop
Attempt ==
  /\ fpc = "attempt"
  /\ IF fattempts > 0
       THEN /\ fattempts' = fattempts - 1
            /\ wait' = LockTimeout
            /\ acq' = acq + 1
            /\ fpc' = "open"
            /\ UNCHANGED failed
       ELSE /\ failed' = failed \o RecordsOf(fpend, fcur)
            /\ fpc' = "group"
            /\ UNCHANGED << fattempts, wait, acq >>
  /\ UNCHANGED << strategy, flush_retry_limit, buffer, since_flush, fpend, grouped,
                  fcur, flocks, holder, fdoc, nwrites, persisted >>
  /\ UNCHANGED flushRest

\* FileLock.acquire: os.open(path, O_CREAT | O_EXCL | O_WRONLY)
FTryCreate ==
  /\ fpc = "open"
  /\ IF ~flocks[fcur].exists
       THEN /\ flocks' = [flocks EXCEPT ![fcur] =
                            [exists |-> TRUE, age |-> 0, owner |-> "writer"]]
            /\ wait' = 0
            /\ fpc' = "persist"
       ELSE /\ fpc' = "stat"
            /\ UNCHANGED << flocks, wait >>
  /\ UNCHANGED << strategy, flush_retry_limit, buffer, since_flush, fpend, grouped,
                  failed, fcur, fattempts, holder, fdoc, nwrites, persisted, acq >>
  /\ UNCHANGED flushRest

\* the lock files one time unit later: those of the other process age (nobody
\* looks at the age of the writer's own lock file)
Aged(fl) ==
  [i \in Idents |->
     IF fl[i].exists /\ fl[i].owner = "holder"
       THEN [fl[i] EXCEPT !.age = Min(@ + 1, StaleSeconds)]
       ELSE fl[i]]

\* FileLock.acquire after FileExistsError: _is_stale, the deadline test, the
\* sleep of one poll interval; on FileLockTimeout the `return 0` of
\* _write_batch (after which _flush_locked puts the records of the group on
\* `failed`) or its backoff sleep and the next attempt
FIsStale ==
  /\ fpc = "stat"
  /\ IF LockStale(flocks[fcur])
       THEN /\ fpc' = "clear"
            /\ UNCHANGED << failed, flocks, wait, since_flush >>
       ELSE IF wait = 0
         THEN IF GiveUp(fattempts)
                THEN /\ failed' = failed \o RecordsOf(fpend, fcur)
                     /\ fpc' = "group"
                     /\ UNCHANGED << flocks, wait, since_flush >>
                ELSE /\ fpc' = "attempt"
                     /\ flocks' = Aged(flocks)
                     /\ since_flush' = Min(since_flush + 1, FlushSeconds + 1)
                     /\ UNCHANGED << failed, wait >>
         ELSE /\ fpc' = "open"
              /\ flocks' = Aged(flocks)
              /\ wait' = wait - 1
              /\ since_flush' = Min(since_flush + 1, FlushSeconds + 1)
              /\ UNCHANGED failed
  /\ UNCHANGED << strategy, flush_retry_limit, buffer, fpend, grouped,
                  fcur, fattempts, holder, fdoc, nwrites, persisted, acq >>
  /\ UNCHANGED flushRest

\* FileLock._clear_stale: os.unlink(path)
FClearStale ==
  /\ fpc = "clear"
  /\ flocks' = [flocks EXCEPT ![fcur] = FreeLock]
  /\ fpc' = "open"
  /\ UNCHANGED << strategy, flush_retry_limit, buffer, since_flush, fpend, grouped,
                  failed, fcur, fattempts, wait, holder, fdoc, nwrites, persisted, acq >>
  /\ UNCHANGED flushRest

\* variant: a record that is already in the document is kept
Merged_FirstKept(recs) == recs[1].n

\* the record of the triple that the document holds after the records of the
\* group were merged one after the other: results[key] = payload, the last one
Merged(recs) == recs[Len(recs)].n

\* _persist_records under the lock: load, merge the group in order, dump, replace
FPersist ==
  /\ fpc = "persist"
  /\ LET recs == RecordsOf(fpend, fcur)
     IN /\ fdoc' = [fdoc EXCEPT ![fcur] = Merged(recs)]
        /\ persisted' = persisted \cup { recs[j].n : j \in 1..Len(recs) }
  /\ fpc' = "release"
  /\ UNCHANGED << strategy, flush_retry_limit, buffer, since_flush, fpend, grouped,
                  failed, fcur, fattempts, wait, flocks, holder, nwrites, acq >>
  /\ UNCHANGED flushRest

\* FileLock.release on leaving the with block; _write_batch returns len(records)
FRelease ==
  /\ fpc = "release"
  /\ flocks' = [flocks EXCEPT ![fcur] = FreeLock]
  /\ fpc' = "group"
  /\ UNCHANGED << strategy, flush_retry_limit, buffer, since_flush, fpend, grouped,
                  failed, fcur, fattempts, wait, holder, fdoc, nwrites, persisted, acq >>
  /\ UNCHANGED flushRest

\* time passes while the writer's thread is not in the polling loop of
\* FileLock.acquire (there its own sleeps let the time pass)
FTick ==
  /\ fpc \notin {"open", "stat", "clear"}
  /\ flocks' = Aged(flocks)
  /\ since_flush' = Min(since_flush + 1, FlushSeconds + 1)
  /\ UNCHANGED << strategy, flush_retry_limit, buffer, fpend, grouped, failed,
                  fcur, fattempts, wait, fpc, holder, fdoc, nwrites, persisted, acq >>
  /\ UNCHANGED flushRest

\* another process takes the free lock of an identifier (FileLock.acquire)
HolderAcquire(i) ==
  /\ i \in Contended
  /\ holder[i] = "none"
  /\ ~flocks[i].exists
  /\ flocks' = [flocks EXCEPT ![i] = [exists |-> TRUE, age |-> 0, owner |-> "holder"]]
  /\ holder' = [holder EXCEPT ![i] = "live"]
  /\ UNCHANGED << strategy, flush_retry_limit, buffer, since_flush, fpend, grouped,
                  failed, fcur, fattempts, wait, fpc, fdoc, nwrites, persisted, acq >>
  /\ UNCHANGED flushRest

\* the other process releases (FileLock.release unlinks the path)
HolderRelease(i) ==
  /\ holder[i] = "live"
  /\ flocks' = [flocks EXCEPT ![i] = FreeLock]
  /\ holder' = [holder EXCEPT ![i] = "none"]
  /\ UNCHANGED << strategy, flush_retry_limit, buffer, since_flush, fpend, grouped,
                  failed, fcur, fattempts, wait, fpc, fdoc, nwrites, persisted, acq >>
  /\ UNCHANGED flushRest

\* the other process dies while it holds the lock: it never releases
HolderCrash(i) ==
  /\ holder[i] = "live"
  /\ holder' = [holder EXCEPT ![i] = "crashed"]
  /\ UNCHANGED << strategy, flush_retry_limit, buffer, since_flush, fpend, grouped,
                  failed, fcur, fattempts, wait, fpc, flocks, fdoc, nwrites,
                  persisted, acq >>
  /\ UNCHANGED flushRest

\* the steps of the thread inside the writer
WriterStep ==
  \/ NextGroup
  \/ Attempt
  \/ FTryCreate
  \/ FIsStale
  \/ FClearStale
  \/ FPersist
  \/ FRelease

NextFlush ==
  \/ \E i \in Idents : FWrite(i)
  \/ FFlush
  \/ WriterStep
  \/ FTick
  \/ \E i \in Contended : HolderAcquire(i)
  \/ \E i \in Contended : HolderRelease(i)
  \/ \E i \in Contended : HolderCrash(i)

\* ------------------------------------------------------------ planning
MaxEntries == 3
MaxLimit == 1

\* a model name: the base name and the LM Studio instance suffix (":2" is
\* inst = 2, no suffix is inst = 0)
ModelM == [base |-> "m", inst |-> 0]
ModelM2 == [base |-> "m", inst |-> 2]
ModelN == [base |-> "n", inst |-> 0]
ModelNames == {ModelM, ModelM2, ModelN}

\* the identifiers of the titles index, in its order
PIds == << "a", "b" >>
PromptHash == "H"
PHashes == {"H", "G"}
\* no per-model test limit (test_limit_per_model is None)
NoLimit == 0

\* normalize_model_key: the name without the instance suffix
normalize_model_key(key) == [key EXCEPT !.inst = 0]

\* str(info.get("title", "")).strip()
Strip(t) == IF t = " " THEN "" ELSE t

\* variant: any entry of the model counts, whatever its prompt hash
has_entry_AnyHash(entries, identifier, model, prompt_hash) ==
  \E h \in PHashes : << identifier, model, h >> \in entries

\* ExistingResultChecker.has_entry
has_entry(entries, identifier, model, prompt_hash) ==
  << identifier, model, prompt_hash >> \in entries

\* BatchPlanner.build: the instances of one alias, in the order of the models
Instances(models, alias) == SelectSeq(models, LAMBDA x : normalize_model_key(x) = alias)

\* the position of a model among the instances of its alias
Slot(models, model) ==
  LET inst == Instances(models, normalize_model_key(model))
  IN CHOOSE k \in 1..Len(inst) : inst[k] = model

\* BatchPlanner._distribute_titles: the bucket of slot k of `slots`, from item j on
RECURSIVE BucketFrom(_, _, _, _)
BucketFrom(items, slots, k, j) ==
  IF j > Len(items) THEN << >>
  ELSE (IF slots <= 1 \/ (j - 1) % slots = k - 1 THEN << items[j] >> ELSE << >>)
       \o BucketFrom(items, slots, k, j + 1)

\* the titles BatchPlanner.build hands to _prepare_tasks for `model`
Share(models, model) ==
  BucketFrom(PIds, Len(Instances(models, normalize_model_key(model))),
             Slot(models, model), 1)

\* BatchPlanner._prepare_tasks: the loop from item j on
RECURSIVE PrepareFrom(_, _, _, _, _, _, _, _)
PrepareFrom(entries, titles, limit, model, items, j, queued, skipped) ==
  IF j > Len(items) THEN [queued |-> queued, skipped |-> skipped]
  ELSE IF has_entry(entries, items[j], model, PromptHash)
    THEN PrepareFrom(entries, titles, limit, model, items, j + 1, queued, skipped + 1)
  ELSE IF Strip(titles[items[j]]) = ""
    THEN PrepareFrom(entries, titles, limit, model, items, j + 1, queued, skipped)
  ELSE IF limit # NoLimit /\ Len(queued) + 1 >= limit
    THEN [queued |-> Append(queued, items[j]), skipped |-> skipped]
  ELSE PrepareFrom(entries, titles, limit, model, items, j + 1,
                   Append(queued, items[j]), skipped)

\* BatchPlanner.build: per model the queued identifiers and the skipped count
Build(entries, titles, limit, models) ==
  [mdl \in SeqSet(models) |->
     PrepareFrom(entries, titles, limit, mdl, Share(models, mdl), 1, << >>, 0)]

\* the tasks of a plan
TasksOf(pl) ==
  { t \in [id : SeqSet(PIds), model : DOMAIN pl] : t.id \in SeqSet(pl[t.model].queued) }

\* TaskRunner: model_key = self.model_aliases.get(task.model, task.model)
StoreKey(model) == normalize_model_key(model)

AllEntries == SeqSet(PIds) \X ModelNames \X PHashes

InitPlan ==
  /\ pentries \in { e \in SUBSET AllEntries : Cardinality(e) <= MaxEntries }
  /\ ptitles \in [SeqSet(PIds) -> {"", " ", "T"}]
  /\ pmodels \in { << ModelM >>, << ModelM2 >>, << ModelM, ModelM2 >>, << ModelM, ModelN >> }
  /\ plimit \in {NoLimit} \cup 1..MaxLimit
  /\ plan = << >>
  /\ pdone = {}
  /\ pphase = "init"

\* the planner parked
PlanParked ==
  /\ pentries = {}
  /\ ptitles = [i \in SeqSet(PIds) |-> "T"]
  /\ pmodels = << ModelM >>
  /\ plimit = NoLimit
  /\ plan = << >>
  /\ pdone = {}
  /\ pphase = "init"

planRest == << runnerVars, storeVars, mergeVars, flushVars, connVars, shutVars,
               runVars, parseVars, metricVars, poolVars, extractVars,
  finalVars >>

\* BatchPlanner.build(models) at the start of a run
PlanBuild ==
  /\ pphase = "init"
  /\ plan' = Build(pentries, ptitles, plimit, pmodels)
  /\ pphase' = "planned"
  /\ UNCHANGED << pentries, ptitles, pmodels, plimit, pdone >>
  /\ UNCHANGED planRest

\* a worker completes one task of the plan: writer.write(task.id, model_key,
\* task.prompt_hash, payload)
RunTask(t) ==
  /\ pphase \in {"planned", "running"}
  /\ t \in TasksOf(plan) \ pdone
  /\ pentries' = pentries \cup { << t.id, StoreKey(t.model), PromptHash >> }
  /\ pdone' = pdone \cup {t}
  /\ pphase' = "running"
  /\ UNCHANGED << ptitles, pmodels, plimit, plan >>
  /\ UNCHANGED planRest

\* the next run plans again: same prompt hash, same models, same titles
Replan ==
  /\ pphase = "running"
  /\ plan' = Build(pentries, ptitles, plimit, pmodels)
  /\ pphase' = "replanned"
  /\ UNCHANGED << pentries, ptitles, pmodels, plimit, pdone >>
  /\ UNCHANGED planRest

NextPlan ==
  \/ PlanBuild
  \/ \E t \in [id : SeqSet(PIds), model : ModelNames] : RunTask(t)
  \/ Replan

\* ------------------------------------------------- connector session alone
ConnBatch == 2
MaxOps == 4
WarmGap == 3

NoCall == [op |-> "none", kind |-> "none", n |-> 0, ok |-> 0, history |-> << >>,
           counter |-> 0, auto |-> 0, serial |-> 0, active |-> FALSE]

\* the entries number first..last
RECURSIVE Entries(_, _)
Entries(first, last) ==
  IF first > last THEN << >> ELSE << first >> \o Entries(first + 1, last)

\* the automatic reminders of a session of `sends` successful one-item batches
WarmAuto(interval, sends) ==
  IF interval > 0 /\ sends > 0 THEN (sends - 1) \div interval ELSE 0

\* the number of history entries of such a session (below the cap: none pruned)
WarmLen(interval, sends) == 2 * sends + WarmAuto(interval, sends)

\* a connector before start_session, or in a session of successful one-item
\* batches that has brought the history close to the cap
InitConn ==
  /\ c_interval \in 0..MaxInterval
  /\ \E sends \in 0..HistoryLimit :
       /\ \/ sends = 0
          \/ WarmLen(c_interval, sends) \in (HistoryLimit - WarmGap)..HistoryLimit
       /\ c_active = (sends > 0)
       /\ c_history = Entries(1, WarmLen(c_interval, sends))
       /\ c_serial = WarmLen(c_interval, sends)
       /\ c_counter = sends
       /\ session_auto = WarmAuto(c_interval, sends)
  /\ cops = 0
  /\ clast = NoCall

\* the connector parked
ConnParked ==
  /\ c_interval = 0
  /\ c_active = FALSE
  /\ c_history = << >>
  /\ c_counter = 0
  /\ c_serial = 0
  /\ session_auto = 0
  /\ cops = 0
  /\ clast = NoCall

connRest == << runnerVars, storeVars, mergeVars, flushVars, planVars, shutVars,
               runVars, parseVars, metricVars, poolVars, extractVars,
  finalVars >>

\* the call that is being made, with the state it starts from
Call(op, kind, n, ok) ==
  [op |-> op, kind |-> kind, n |-> n, ok |-> ok, history |-> c_history,
   counter |-> c_counter, auto |-> session_auto, serial |-> c_serial,
   active |-> c_active]

\* ModelConnector.start_session
CStart ==
  /\ cops < MaxOps
  /\ cops' = cops + 1
  /\ clast' = Call("start", "none", 0, 0)
  /\ c_history' = << >>
  /\ c_active' = TRUE
  /\ c_counter' = 0
  /\ session_auto' = 0
  /\ UNCHANGED << c_interval, c_serial >>
  /\ UNCHANGED connRest

\* ModelConnector.close_session
CClose ==
  /\ cops < MaxOps
  /\ cops' = cops + 1
  /\ clast' = Call("close", "none", 0, 0)
  /\ c_history' = << >>
  /\ c_active' = FALSE
  /\ c_counter' = 0
  /\ UNCHANGED << c_interval, c_serial, session_auto >>
  /\ UNCHANGED connRest

\* variant: the exchange is stored whether or not a record was recovered
ExchangeStored_Always(ok) == TRUE

\* send_batch: `if success_count:` -- the exchange goes into the history
ExchangeStored(ok) == ok > 0

\* ModelConnector.send_batch of n headlines in an active session (without a
\* session it raises): the reminder when due, the request, `ok` records
CSend ==
  /\ cops < MaxOps
  /\ c_active
  /\ \E kind \in {"transport", "http", "parse", "entries"} :
     \E n \in 1..ConnBatch :
     \E ok \in 0..n :
       /\ kind # "entries" => ok = 0
       /\ clast' = Call("send", kind, n, ok)
       /\ LET due == AutoReminderDue(c_active, c_interval, c_counter)
              s0 == c_serial + (IF due THEN 1 ELSE 0)
              h0 == IF due THEN PruneHistory(Append(c_history, s0)) ELSE c_history
          IN /\ session_auto' = session_auto + (IF due THEN 1 ELSE 0)
             /\ IF ExchangeStored(ok)
                  THEN /\ c_history' = PruneHistory(h0 \o << s0 + 1, s0 + 2 >>)
                       /\ c_serial' = s0 + 2
                  ELSE /\ c_history' = h0
                       /\ c_serial' = s0
             /\ c_counter' = c_counter + ok
  /\ cops' = cops + 1
  /\ UNCHANGED << c_interval, c_active >>
  /\ UNCHANGED connRest

\* ModelConnector.reinforce_compliance
CReinforce ==
  /\ cops < MaxOps
  /\ cops' = cops + 1
  /\ clast' = Call("reinforce", "none", 0, 0)
  /\ IF c_active
       THEN /\ c_history' = PruneHistory(Append(c_history, c_serial + 1))
            /\ c_serial' = c_serial + 1
       ELSE UNCHANGED << c_history, c_serial >>
  /\ UNCHANGED << c_interval, c_active, c_counter, session_auto >>
  /\ UNCHANGED connRest

NextConn ==
  \/ CStart
  \/ CClose
  \/ CSend
  \/ CReinforce

\* --------------------------------------------------- the end of a run
MaxSignals == 2
MaxWorkTasks == 2

Free == "free"

InitShut ==
  /\ summary_every_seconds \in {0, 1}
  /\ summary_every_tasks \in {0, 1}
  /\ shutdown_event = FALSE
  /\ stop_event = FALSE
  /\ reporter_lock = Free
  /\ writer_lock = Free
  /\ finalized = FALSE
  /\ signal_snapshot_emitted = FALSE
  /\ mainpc = "run"
  /\ handlers = << >>
  \* MetricsSummaryReporter.start: the thread exists only with a time interval
  /\ periodicpc = IF summary_every_seconds > 0 THEN "wait" ELSE "off"
  /\ workerpc = "top"
  /\ wleft \in 0..MaxWorkTasks
  /\ signals = 0
  /\ snapshots = 0
  /\ finals = 0

ShutParked ==
  /\ summary_every_seconds = 0
  /\ summary_every_tasks = 0
  /\ shutdown_event = FALSE
  /\ stop_event = FALSE
  /\ reporter_lock = Free
  /\ writer_lock = Free
  /\ finalized = FALSE
  /\ signal_snapshot_emitted = FALSE
  /\ mainpc = "parked"
  /\ handlers = << >>
  /\ periodicpc = "off"
  /\ workerpc = "finished"
  /\ wleft = 0
  /\ signals = 0
  /\ snapshots = 0
  /\ finals = 0

shutRest == << runnerVars, storeVars, mergeVars, flushVars, planVars, connVars,
               runVars, parseVars, metricVars, poolVars, extractVars,
  finalVars >>

\* thread.is_alive() of the periodic thread
PeriodicAlive == periodicpc \notin {"off", "exited"}

\* ---- the main thread: BatchProcessingPipeline.run from runner.run() on
\* runner.run(): the worker threads are joined
MainJoinWorkers ==
  /\ mainpc = "run"
  /\ workerpc = "finished"
  /\ mainpc' = "flush_acquire"
  /\ UNCHANGED << summary_every_seconds, summary_every_tasks, shutdown_event,
                  stop_event, reporter_lock, writer_lock, finalized,
                  signal_snapshot_emitted, handlers, periodicpc, workerpc,
                  wleft, signals, snapshots, finals >>

\* deps.writer.flush(): `with self.lock`
MainFlushAcquire ==
  /\ mainpc = "flush_acquire"
  /\ writer_lock = Free
  /\ writer_lock' = "main"
  /\ mainpc' = "flush_locked"
  /\ UNCHANGED << summary_every_seconds, summary_every_tasks, shutdown_event,
                  stop_event, reporter_lock, finalized,
                  signal_snapshot_emitted, handlers, periodicpc, workerpc,
                  wleft, signals, snapshots, finals >>

\* _flush_locked(force=True) and the end of the with block
MainFlushRelease ==
  /\ mainpc = "flush_locked"
  /\ writer_lock' = Free
  /\ mainpc' = "finalize_acquire"
  /\ UNCHANGED << summary_every_seconds, summary_every_tasks, shutdown_event,
                  stop_event, reporter_lock, finalized,
                  signal_snapshot_emitted, handlers, periodicpc, workerpc,
                  wleft, signals, snapshots, finals >>

\* MetricsSummaryReporter.finalize: `with self._lock`
MainFinalizeAcquire ==
  /\ mainpc = "finalize_acquire"
  /\ reporter_lock = Free
  /\ reporter_lock' = "main"
  /\ mainpc' = "finalize_flag"
  /\ UNCHANGED << summary_every_seconds, summary_every_tasks, shutdown_event,
                  stop_event, writer_lock, finalized,
                  signal_snapshot_emitted, handlers, periodicpc, workerpc,
                  wleft, signals, snapshots, finals >>

\* finalize: self._finalized = True
MainFinalizeFlag ==
  /\ mainpc = "finalize_flag"
  /\ finalized' = TRUE
  /\ mainpc' = "finalize_stop"
  /\ UNCHANGED << summary_every_seconds, summary_every_tasks, shutdown_event,
                  stop_event, reporter_lock, writer_lock,
                  signal_snapshot_emitted, handlers, periodicpc, workerpc,
                  wleft, signals, snapshots, finals >>

\* finalize: self.stop() up to thread.join()
MainFinalizeStop ==
  /\ mainpc = "finalize_stop"
  /\ stop_event' = TRUE
  /\ mainpc' = IF PeriodicAlive THEN "finalize_join" ELSE "finalize_emit"
  /\ UNCHANGED << summary_every_seconds, summary_every_tasks, shutdown_event,
                  reporter_lock, writer_lock, finalized,
                  signal_snapshot_emitted, handlers, periodicpc, workerpc,
                  wleft, signals, snapshots, finals >>

\* finalize: thread.join() returns when the periodic thread has ended
MainFinalizeJoin ==
  /\ mainpc = "finalize_join"
  /\ ~PeriodicAlive
  /\ mainpc' = "finalize_emit"
  /\ UNCHANGED << summary_every_seconds, summary_every_tasks, shutdown_event,
                  stop_event, reporter_lock, writer_lock, finalized,
                  signal_snapshot_emitted, handlers, periodicpc, workerpc,
                  wleft, signals, snapshots, finals >>

\* finalize: the final summary is built, written and logged; the lock released
MainFinalizeEmit ==
  /\ mainpc = "finalize_emit"
  /\ finals' = finals + 1
  /\ reporter_lock' = Free
  /\ mainpc' = "done"
  /\ UNCHANGED << summary_every_seconds, summary_every_tasks, shutdown_event,
                  stop_event, writer_lock, finalized,
                  signal_snapshot_emitted, handlers, periodicpc, workerpc,
                  wleft, signals, snapshots >>

\* the main thread runs its own code only while no handler is on top of it
MainStep ==
  /\ handlers = << >>
  /\ \/ MainJoinWorkers
     \/ MainFlushAcquire
     \/ MainFlushRelease
     \/ MainFinalizeAcquire
     \/ MainFinalizeFlag
     \/ MainFinalizeStop
     \/ MainFinalizeJoin
     \/ MainFinalizeEmit
  /\ UNCHANGED shutRest

\* ---- SIGINT / SIGTERM: the handler of ShutdownManager.register runs on the
\* main thread, on top of whatever that thread was doing
Signal ==
  /\ signals < MaxSignals
  /\ mainpc # "done"
  /\ signals' = signals + 1
  /\ handlers' = Append(handlers, "set")
  /\ UNCHANGED << summary_every_seconds, summary_every_tasks, shutdown_event,
                  stop_event, reporter_lock, writer_lock, finalized,
                  signal_snapshot_emitted, mainpc, periodicpc, workerpc,
                  wleft, snapshots, finals >>
  /\ UNCHANGED shutRest

Top == handlers[Len(handlers)]
Goto(label) == handlers' = [handlers EXCEPT ![Len(handlers)] = label]
Return == handlers' = SubSeq(handlers, 1, Len(handlers) - 1)

\* handler: self.shutdown_event.set()
HandlerSet ==
  /\ Top = "set"
  /\ shutdown_event' = TRUE
  /\ Goto("flush_acquire")
  /\ UNCHANGED << stop_event, reporter_lock, writer_lock,
                  signal_snapshot_emitted, snapshots >>

\* handler: self.writer.flush(), `with self.lock`
HandlerFlushAcquire ==
  /\ Top = "flush_acquire"
  /\ writer_lock = Free
  /\ writer_lock' = "handler"
  /\ Goto("flush_locked")
  /\ UNCHANGED << shutdown_event, stop_event, reporter_lock,
                  signal_snapshot_emitted, snapshots >>

HandlerFlushRelease ==
  /\ Top = "flush_locked"
  /\ writer_lock' = Free
  /\ Goto("snapshot")
  /\ UNCHANGED << shutdown_event, stop_event, reporter_lock,
                  signal_snapshot_emitted, snapshots >>

\* handle_shutdown_signal: `if self._finalized: return`
HandlerFinalizedTest ==
  /\ Top = "snapshot"
  /\ IF finalized THEN Return ELSE Goto("snapshot_acquire")
  /\ UNCHANGED << shutdown_event, stop_event, reporter_lock, writer_lock,
                  signal_snapshot_emitted, snapshots >>

\* handle_shutdown_signal: `with self._lock`
HandlerSnapshotAcquire ==
  /\ Top = "snapshot_acquire"
  /\ reporter_lock = Free
  /\ reporter_lock' = "handler"
  /\ Goto("snapshot_once")
  /\ UNCHANGED << shutdown_event, stop_event, writer_lock,
                  signal_snapshot_emitted, snapshots >>

\* handle_shutdown_signal: `if self._signal_snapshot_emitted: return`, else
\* self.stop() up to thread.join()
HandlerSnapshotOnce ==
  /\ Top = "snapshot_once"
  /\ IF signal_snapshot_emitted
       THEN /\ reporter_lock' = Free
            /\ Return
            /\ UNCHANGED stop_event
       ELSE /\ stop_event' = TRUE
            /\ Goto(IF PeriodicAlive THEN "snapshot_join" ELSE "snapshot_emit")
            /\ UNCHANGED reporter_lock
  /\ UNCHANGED << shutdown_event, writer_lock, signal_snapshot_emitted, snapshots >>

HandlerSnapshotJoin ==
  /\ Top = "snapshot_join"
  /\ ~PeriodicAlive
  /\ Goto("snapshot_emit")
  /\ UNCHANGED << shutdown_event, stop_event, reporter_lock, writer_lock,
                  signal_snapshot_emitted, snapshots >>

\* handle_shutdown_signal: the snapshot is written and logged, the flag set
HandlerSnapshotEmit ==
  /\ Top = "snapshot_emit"
  /\ snapshots' = snapshots + 1
  /\ signal_snapshot_emitted' = TRUE
  /\ reporter_lock' = Free
  /\ Return
  /\ UNCHANGED << shutdown_event, stop_event, writer_lock >>

\* the innermost handler runs
HandlerStep ==
  /\ handlers # << >>
  /\ \/ HandlerSet
     \/ HandlerFlushAcquire
     \/ HandlerFlushRelease
     \/ HandlerFinalizedTest
     \/ HandlerSnapshotAcquire
     \/ HandlerSnapshotOnce
     \/ HandlerSnapshotJoin
     \/ HandlerSnapshotEmit
  /\ UNCHANGED << summary_every_seconds, summary_every_tasks, finalized, mainpc,
                  periodicpc, workerpc, wleft, signals, finals >>
  /\ UNCHANGED shutRest

\* ---- the periodic thread: _run_periodic and report
\* `while not self._stop_event.wait(...)`: the event, or else the timeout
PeriodicWait ==
  /\ periodicpc = "wait"
  /\ periodicpc' = IF stop_event THEN "exited" ELSE "report"
  /\ UNCHANGED reporter_lock

\* report: `if self._finalized: return`
PeriodicFinalizedTest ==
  /\ periodicpc = "report"
  /\ periodicpc' = IF finalized THEN "wait" ELSE "report_acquire"
  /\ UNCHANGED reporter_lock

\* report: `with self._lock`
PeriodicAcquire ==
  /\ periodicpc = "report_acquire"
  /\ reporter_lock = Free
  /\ reporter_lock' = "periodic"
  /\ periodicpc' = "report_locked"

\* report: the interval summary is written and logged; the lock released
PeriodicReport ==
  /\ periodicpc = "report_locked"
  /\ reporter_lock' = Free
  /\ periodicpc' = "wait"

PeriodicStep ==
  /\ \/ PeriodicWait
     \/ PeriodicFinalizedTest
     \/ PeriodicAcquire
     \/ PeriodicReport
  /\ UNCHANGED << summary_every_seconds, summary_every_tasks, shutdown_event,
                  stop_event, writer_lock, finalized, signal_snapshot_emitted,
                  mainpc, handlers, workerpc, wleft, signals, snapshots, finals >>
  /\ UNCHANGED shutRest

\* ---- one worker thread: writer.write and maybe_report for each task
\* loop head of _process_model_tasks
WorkerTop ==
  /\ workerpc = "top"
  /\ workerpc' = IF wleft = 0 \/ shutdown_event THEN "finished" ELSE "write_acquire"
  /\ UNCHANGED << reporter_lock, writer_lock, wleft >>

\* writer.write: `with self.lock`
WorkerWriteAcquire ==
  /\ workerpc = "write_acquire"
  /\ writer_lock = Free
  /\ writer_lock' = "worker"
  /\ workerpc' = "write_locked"
  /\ UNCHANGED << reporter_lock, wleft >>

WorkerWriteRelease ==
  /\ workerpc = "write_locked"
  /\ writer_lock' = Free
  /\ workerpc' = "maybe_report"
  /\ UNCHANGED << reporter_lock, wleft >>

\* maybe_report: finalized, no task interval, or interval not reached: return;
\* else report, which tests _finalized again before the lock
WorkerMaybeReport ==
  /\ workerpc = "maybe_report"
  /\ \E reached \in BOOLEAN :
       IF finalized \/ summary_every_tasks <= 0 \/ ~reached
         THEN workerpc' = "top" /\ wleft' = wleft - 1
         ELSE workerpc' = "report_acquire" /\ UNCHANGED wleft
  /\ UNCHANGED << reporter_lock, writer_lock >>

WorkerReportAcquire ==
  /\ workerpc = "report_acquire"
  /\ reporter_lock = Free
  /\ reporter_lock' = "worker"
  /\ workerpc' = "report_locked"
  /\ UNCHANGED << writer_lock, wleft >>

WorkerReport ==
  /\ workerpc = "report_locked"
  /\ reporter_lock' = Free
  /\ workerpc' = "top"
  /\ wleft' = wleft - 1
  /\ UNCHANGED writer_lock

WorkerStep ==
  /\ \/ WorkerTop
     \/ WorkerWriteAcquire
     \/ WorkerWriteRelease
     \/ WorkerMaybeReport
     \/ WorkerReportAcquire
     \/ WorkerReport
  /\ UNCHANGED << summary_every_seconds, summary_every_tasks, shutdown_event,
                  stop_event, finalized, signal_snapshot_emitted, mainpc,
                  handlers, periodicpc, signals, snapshots, finals >>
  /\ UNCHANGED shutRest

NextShut ==
  \/ MainStep
  \/ Signal
  \/ HandlerStep
  \/ PeriodicStep
  \/ WorkerStep

\* ------------------------------------- TaskRunner.run over several targets
NTargets == 2
MaxQueue == 2
MaxRequeue == 1

\* the keys of tasks_by_model, in the order run() iterates over them
RunTargets == 1..NTargets

InitRun ==
  /\ run_shutdown = FALSE
  /\ run_main = "spawn"
  /\ run_idx = 1
  /\ run_logged = FALSE
  /\ tpc = [t \in RunTargets |-> "unstarted"]
  /\ tpending \in [RunTargets -> 0..MaxQueue]
  /\ tbudget = [t \in RunTargets |-> MaxRequeue]
  /\ tbatch = [t \in RunTargets |-> 0]
  /\ tsession = [t \in RunTargets |-> FALSE]
  /\ thistory = [t \in RunTargets |-> << >>]
  /\ tthreads = [t \in RunTargets |-> 0]
  /\ tcloses = [t \in RunTargets |-> 0]
  /\ traised = [t \in RunTargets |-> FALSE]
  /\ tinflight = [t \in RunTargets |-> 0]
  /\ tsent = [t \in RunTargets |-> 0]
  /\ tdecided = [t \in RunTargets |-> 0]

RunParked ==
  /\ run_shutdown = FALSE
  /\ run_main = "parked"
  /\ run_idx = 1
  /\ run_logged = FALSE
  /\ tpc = [t \in RunTargets |-> "unstarted"]
  /\ tpending = [t \in RunTargets |-> 0]
  /\ tbudget = [t \in RunTargets |-> 0]
  /\ tbatch = [t \in RunTargets |-> 0]
  /\ tsession = [t \in RunTargets |-> FALSE]
  /\ thistory = [t \in RunTargets |-> << >>]
  /\ tthreads = [t \in RunTargets |-> 0]
  /\ tcloses = [t \in RunTargets |-> 0]
  /\ traised = [t \in RunTargets |-> FALSE]
  /\ tinflight = [t \in RunTargets |-> 0]
  /\ tsent = [t \in RunTargets |-> 0]
  /\ tdecided = [t \in RunTargets |-> 0]

runRest == << runnerVars, storeVars, mergeVars, flushVars, planVars, connVars,
             shutVars, parseVars, metricVars, poolVars, extractVars,
  finalVars >>

\* shutdown_event.set()
RunShutdown ==
  /\ run_main \notin {"parked", "returned"}
  /\ ~run_shutdown
  /\ run_shutdown' = TRUE
  /\ UNCHANGED << run_main, run_idx, run_logged, tpc, tpending, tbudget, tbatch,
                  tsession, thistory, tthreads, tcloses, traised, tinflight,
                  tsent, tdecided >>
  /\ UNCHANGED runRest

\* run(): `if not tasks: continue`, else a thread for the target
StartsThread(t) == tpending[t] > 0

\* run(): one turn of the loop that creates and starts the threads
RunSpawn ==
  /\ run_main = "spawn"
  /\ IF run_idx > NTargets \/ run_shutdown
       THEN /\ run_main' = "join"
            /\ run_idx' = 1
            /\ UNCHANGED << tpc, tthreads >>
       ELSE /\ run_idx' = run_idx + 1
            /\ UNCHANGED run_main
            /\ IF StartsThread(run_idx)
                 THEN /\ tpc' = [tpc EXCEPT ![run_idx] = "entry"]
                      /\ tthreads' = [tthreads EXCEPT ![run_idx] = @ + 1]
                 ELSE UNCHANGED << tpc, tthreads >>
  /\ UNCHANGED run_logged

\* run(): `for thread in threads: thread.join()`
RunJoin ==
  /\ run_main = "join"
  /\ IF run_idx > NTargets
       THEN /\ run_main' = "summary"
            /\ UNCHANGED run_idx
       ELSE /\ tpc[run_idx] \in {"unstarted", "ended"}
            /\ run_idx' = run_idx + 1
            /\ UNCHANGED run_main
  /\ UNCHANGED << run_logged, tpc, tthreads >>

\* run(): end_time and self._log_summary()
RunSummary ==
  /\ run_main = "summary"
  /\ run_logged' = TRUE
  /\ run_main' = "returned"
  /\ UNCHANGED << run_idx, tpc, tthreads >>

RunMain ==
  /\ \/ RunSpawn
     \/ RunJoin
     \/ RunSummary
  /\ UNCHANGED << run_shutdown, tpending, tbudget, tbatch, tsession, thistory,
                  tcloses, traised, tinflight, tsent, tdecided >>
  /\ UNCHANGED runRest

\* _run_model_queue: the shutdown test, then connector.start_session
WorkerEntry(t) ==
  /\ tpc[t] = "entry"
  /\ IF run_shutdown
       THEN /\ tpc' = [tpc EXCEPT ![t] = "ended"]
            /\ UNCHANGED tsession
       ELSE /\ tpc' = [tpc EXCEPT ![t] = "top"]
            /\ tsession' = [tsession EXCEPT ![t] = TRUE]
  /\ UNCHANGED << tpending, tbudget, tbatch, thistory, tcloses, traised,
                  tinflight, tsent, tdecided >>

\* _process_model_tasks: loop head and the slice of the next batch
WorkerLoop(t) ==
  /\ tpc[t] = "top"
  /\ IF tpending[t] = 0 \/ run_shutdown
       THEN /\ tpc' = [tpc EXCEPT ![t] = "finally"]
            /\ UNCHANGED << tpending, tbatch >>
       ELSE \E k \in 1..tpending[t] :
              /\ tbatch' = [tbatch EXCEPT ![t] = k]
              /\ tpending' = [tpending EXCEPT ![t] = @ - k]
              /\ tpc' = [tpc EXCEPT ![t] = "send"]
  /\ UNCHANGED << tbudget, tsession, thistory, tcloses, traised, tinflight,
                  tsent, tdecided >>

\* variant: an exception ends the thread without the finally block
AfterRaise_NoCleanup == "ended"

\* _run_model_queue: an exception out of _process_model_tasks runs the finally
AfterRaise == "finally"

\* connector.send_batch: the request goes out, or the call raises
WorkerSend(t) ==
  /\ tpc[t] = "send"
  /\ \/ /\ tinflight' = [tinflight EXCEPT ![t] = @ + 1]
        /\ tsent' = [tsent EXCEPT ![t] = @ + 1]
        /\ tpc' = [tpc EXCEPT ![t] = "await"]
        /\ UNCHANGED traised
     \/ /\ traised' = [traised EXCEPT ![t] = TRUE]
        /\ tpc' = [tpc EXCEPT ![t] = AfterRaise]
        /\ UNCHANGED << tinflight, tsent >>
  /\ UNCHANGED << tpending, tbudget, tbatch, tsession, thistory, tcloses, tdecided >>

\* variant: the newest exchange is put in front of the history
Recorded_InFront(h, k) == << k >> \o h

\* send_batch: self._history.extend([user_message, assistant]) of batch k
Recorded(h, k) == Append(h, k)

\* connector.send_batch: the reply; with a recovered record the exchange of
\* this batch goes into the session history
WorkerReceive(t) ==
  /\ tpc[t] = "await"
  /\ tinflight' = [tinflight EXCEPT ![t] = @ - 1]
  /\ \E recovered \in BOOLEAN :
       thistory' = [thistory EXCEPT ![t] = IF recovered THEN Recorded(@, tsent[t]) ELSE @]
  /\ tpc' = [tpc EXCEPT ![t] = "route"]
  /\ UNCHANGED << tpending, tbudget, tbatch, tsession, tcloses, traised, tsent,
                  tdecided >>

\* routing, writer.write, the retry decisions and the re-queue; or a raise
WorkerRoute(t) ==
  /\ tpc[t] = "route"
  /\ \/ /\ \E again \in 0..tbatch[t] :
             /\ again > 0 => tbudget[t] > 0 /\ ~run_shutdown
             /\ tpending' = [tpending EXCEPT ![t] = @ + again]
             /\ tbudget' = [tbudget EXCEPT ![t] = IF again > 0 THEN @ - 1 ELSE @]
        /\ tdecided' = [tdecided EXCEPT ![t] = @ + 1]
        /\ tpc' = [tpc EXCEPT ![t] = "top"]
        /\ UNCHANGED traised
     \/ /\ traised' = [traised EXCEPT ![t] = TRUE]
        /\ tpc' = [tpc EXCEPT ![t] = AfterRaise]
        /\ UNCHANGED << tpending, tbudget, tdecided >>
  /\ tbatch' = [tbatch EXCEPT ![t] = 0]
  /\ UNCHANGED << tsession, thistory, tcloses, tinflight, tsent >>

\* _run_model_queue: finally: connector.close_session(), _record_queue_duration
WorkerFinally(t) ==
  /\ tpc[t] = "finally"
  /\ tsession' = [tsession EXCEPT ![t] = FALSE]
  /\ thistory' = [thistory EXCEPT ![t] = << >>]
  /\ tcloses' = [tcloses EXCEPT ![t] = @ + 1]
  /\ tpc' = [tpc EXCEPT ![t] = "ended"]
  /\ UNCHANGED << tpending, tbudget, tbatch, traised, tinflight, tsent, tdecided >>

RunWorker(t) ==
  /\ \/ WorkerEntry(t)
     \/ WorkerLoop(t)
     \/ WorkerSend(t)
     \/ WorkerReceive(t)
     \/ WorkerRoute(t)
     \/ WorkerFinally(t)
  /\ UNCHANGED << run_shutdown, run_main, run_idx, run_logged, tthreads >>
  /\ UNCHANGED runRest

NextRun ==
  \/ RunShutdown
  \/ RunMain
  \/ \E t \in RunTargets : RunWorker(t)

\* ------------------------------- send_batch: the reply mapped onto the batch
MaxHeadlines == 2
MaxRecords == 2

\* JSON values as the connector sees them
Null == [type |-> "null", text |-> "", items |-> << >>]
Str(t) == [type |-> "str", text |-> t, items |-> << >>]
List(s) == [type |-> "list", text |-> "", items |-> s]

\* two scalar keys and one list key stand for the five and three of the source
REQUIRED_KEYS == {"core_event", "tone", "themes"}
LIST_KEYS == {"themes"}

\* what a backend may put under a scalar key and under a list key: nothing, a
\* blank string, English text, text in another script; nothing, a list, a string
RawScalars == {Null, Str(" "), Str("x"), Str("zh")}
RawLists == {Null, List(<< "x", " " >>), Str("x")}

\* the parsed objects (dict items) of a reply
RawRecords ==
  { r \in [REQUIRED_KEYS -> RawScalars \cup RawLists] :
      \A k \in REQUIRED_KEYS :
        r[k] \in (IF k \in LIST_KEYS THEN RawLists ELSE RawScalars) }

\* the replies: up to MaxRecords parsed objects
RECURSIVE RecordSeqs(_)
RecordSeqs(n) ==
  IF n = 0 THEN {<< >>}
  ELSE RecordSeqs(n - 1)
       \cup { Append(s, r) : s \in { q \in RecordSeqs(n - 1) : Len(q) = n - 1 },
                             r \in RawRecords }

NoResult == [type |-> "none"]

\* ModelConnector._coerce_to_string: None gives "", a string is stripped
coerce_to_string(value) ==
  IF value.type = "null" THEN Str("")
  ELSE IF value.type = "str" THEN Str(Strip(value.text))
  ELSE Str("[...]")

\* ModelConnector._coerce_to_list: None gives [], the items of a list are
\* coerced and the empty ones dropped, a string is split into its parts
coerce_to_list(value) ==
  IF value.type = "null" THEN List(<< >>)
  ELSE IF value.type = "list"
    THEN List(SelectSeq([i \in 1..Len(value.items) |-> Strip(value.items[i])],
                        LAMBDA t : t # ""))
  ELSE IF Strip(value.text) = "" THEN List(<< >>)
  ELSE List(<< Strip(value.text) >>)

\* _normalize_payload, final validation: isinstance(normalized.get(key), str)
ScalarValid(value) == value.type = "str"

\* ModelConnector._normalize_payload
normalize_payload(payload) ==
  LET normalized == [k \in REQUIRED_KEYS |->
                       IF k \in LIST_KEYS THEN coerce_to_list(payload[k])
                       ELSE coerce_to_string(payload[k])]
  IN IF /\ \A k \in REQUIRED_KEYS \ LIST_KEYS : ScalarValid(normalized[k])
        /\ \A k \in LIST_KEYS : normalized[k].type = "list"
       THEN [type |-> "record", fields |-> normalized]
       ELSE NoResult

\* ModelConnector._looks_english
looks_english(text) == text # "zh"

\* ModelConnector._sanitize_string_to_english: text in another script is
\* replaced by English text or by the placeholder
sanitize_string_to_english(text) ==
  IF text = "" \/ looks_english(text) THEN text ELSE "unknown"

\* ModelConnector._ensure_english_payload
ensure_english_payload(fields) ==
  [k \in DOMAIN fields |->
     IF fields[k].type = "str" THEN Str(sanitize_string_to_english(fields[k].text))
     ELSE List([i \in 1..Len(fields[k].items) |->
                  sanitize_string_to_english(fields[k].items[i])])]

\* ModelConnector._validate_language
validate_language(fields) ==
  \A k \in DOMAIN fields :
    /\ fields[k].type = "str" => (fields[k].text = "" \/ looks_english(fields[k].text))
    /\ \A i \in 1..Len(fields[k].items) :
         fields[k].items[i] = "" \/ looks_english(fields[k].items[i])

\* send_batch, body of the loop over the parsed entries: the result of one entry
ResultOf(entry, checker) ==
  LET normalized == normalize_payload(entry)
  IN IF normalized = NoResult THEN NoResult
     ELSE IF ~checker THEN normalized
     ELSE LET sanitized == ensure_english_payload(normalized.fields)
          IN IF validate_language(sanitized)
               THEN [type |-> "record", fields |-> sanitized]
               ELSE NoResult

\* variant: the entries are handed out from the last one backwards
EntryFor_FromEnd(entries, offset) == entries[Len(entries) + 1 - offset]

\* send_batch: parsed_entries[offset]
EntryFor(entries, offset) == entries[offset]

\* send_batch: results = [None] * len(headlines), filled up to max_index
ResultsOf(n, entries, checker) ==
  [offset \in 1..n |->
     IF offset <= Min(Len(entries), n)
       THEN ResultOf(EntryFor(entries, offset), checker)
       ELSE NoResult]

InitParse ==
  /\ sb_language \in BOOLEAN
  /\ sb_headlines \in 1..MaxHeadlines
  /\ sb_entries \in RecordSeqs(MaxRecords)
  /\ sb_results = << >>
  /\ sb_returned = "nothing"
  /\ sb_warnings = 0
  /\ sb_retry = {}
  /\ sb_written = {}
  /\ sb_pc = "send"

ParseParked ==
  /\ sb_language = FALSE
  /\ sb_headlines = 1
  /\ sb_entries = << >>
  /\ sb_results = << >>
  /\ sb_returned = "nothing"
  /\ sb_warnings = 0
  /\ sb_retry = {}
  /\ sb_written = {}
  /\ sb_pc = "parked"

parseRest == << runnerVars, storeVars, mergeVars, flushVars, planVars, connVars,
               shutVars, runVars, metricVars, poolVars, extractVars,
  finalVars >>

\* ModelConnector.send_batch from the parsed reply on: None when no object was
\* parsed, else the list of results and the warning about extra objects
SbSend ==
  /\ sb_pc = "send"
  /\ IF sb_entries = << >>
       THEN /\ sb_returned' = "None"
            /\ UNCHANGED << sb_results, sb_warnings >>
       ELSE /\ sb_returned' = "list"
            /\ sb_results' = ResultsOf(sb_headlines, sb_entries, sb_language)
            /\ sb_warnings' = sb_warnings + (IF Len(sb_entries) > sb_headlines THEN 1 ELSE 0)
  /\ sb_pc' = "route"
  /\ UNCHANGED << sb_language, sb_headlines, sb_entries, sb_retry, sb_written >>
  /\ UNCHANGED parseRest

\* TaskRunner._process_model_tasks: the alignment of the responses and the
\* routing of each item to writer.write or to retry_queue
SbRoute ==
  /\ sb_pc = "route"
  /\ LET aligned == IF sb_returned = "None"
                        THEN [i \in 1..sb_headlines |-> NoResult]
                        ELSE [i \in 1..sb_headlines |->
                                IF i <= Len(sb_results) THEN sb_results[i] ELSE NoResult]
     IN /\ sb_retry' = { i \in 1..sb_headlines : aligned[i] = NoResult }
        /\ sb_written' = { i \in 1..sb_headlines : aligned[i] # NoResult }
  /\ sb_pc' = "routed"
  /\ UNCHANGED << sb_language, sb_headlines, sb_entries, sb_results, sb_returned,
                  sb_warnings >>
  /\ UNCHANGED parseRest

NextParse ==
  \/ SbSend
  \/ SbRoute

\* ================================================================ metrics
\* TaskRunner._record_task_metrics called by the worker threads of one run,
\* the MetricsCollector it feeds, and the finalization that follows the join
\* of the workers (src/src/core/task_runner.py, metrics_collector.py).

MaxFinalized == 2

MetricWorkers == {"first", "second"}

Aliases == {"alpha", "beta"}

ZeroStats == [processed |-> 0, success |-> 0, failed |-> 0]

\* processed += 1, then success += 1 or failed += 1
Counted_NoFailed(s, ok) ==
  [s EXCEPT !.processed = @ + 1, !.success = @ + (IF ok THEN 1 ELSE 0)]
Counted(s, ok) ==
  [s EXCEPT !.processed = @ + 1,
            !.success = @ + (IF ok THEN 1 ELSE 0),
            !.failed = @ + (IF ok THEN 0 ELSE 1)]

InitMetrics ==
  /\ model_aliases \in [MetricWorkers -> Aliases]
  /\ stats_lock = Free
  /\ stats = ZeroStats
  /\ per_model = [a \in Aliases |-> ZeroStats]
  /\ collector_records = << >>
  /\ total_recorded = 0
  /\ collector_finalized = FALSE
  /\ rpc = [w \in MetricWorkers |-> "idle"]
  /\ rleft \in [MetricWorkers -> 1..MaxFinalized]
  /\ rsuccess = [w \in MetricWorkers |-> FALSE]
  /\ rcalls = [w \in MetricWorkers |-> 0]
  /\ rappended = [w \in MetricWorkers |-> 0]

MetricsParked ==
  /\ model_aliases = [w \in MetricWorkers |-> "alpha"]
  /\ stats_lock = Free
  /\ stats = ZeroStats
  /\ per_model = [a \in Aliases |-> ZeroStats]
  /\ collector_records = << >>
  /\ total_recorded = 0
  /\ collector_finalized = FALSE
  /\ rpc = [w \in MetricWorkers |-> "parked"]
  /\ rleft = [w \in MetricWorkers |-> 0]
  /\ rsuccess = [w \in MetricWorkers |-> FALSE]
  /\ rcalls = [w \in MetricWorkers |-> 0]
  /\ rappended = [w \in MetricWorkers |-> 0]

metricRest == << runnerVars, storeVars, mergeVars, flushVars, planVars, connVars,
                shutVars, runVars, parseVars, poolVars, extractVars,
  finalVars >>

\* _finalize of one task: the call of _record_task_metrics with the outcome
\* of the task, up to the acquisition of _stats_lock
RecordAcquire(w) ==
  /\ rpc[w] = "idle"
  /\ rleft[w] > 0
  /\ stats_lock = Free
  /\ stats_lock' = w
  /\ \E ok \in BOOLEAN : rsuccess' = [rsuccess EXCEPT ![w] = ok]
  /\ rleft' = [rleft EXCEPT ![w] = @ - 1]
  /\ rcalls' = [rcalls EXCEPT ![w] = @ + 1]
  /\ rpc' = [rpc EXCEPT ![w] = "global"]
  /\ UNCHANGED << model_aliases, stats, per_model, collector_records, total_recorded,
                  collector_finalized, rappended >>
  /\ UNCHANGED metricRest

\* the counters of the run, under the lock
RecordGlobal(w) ==
  /\ rpc[w] = "global"
  /\ stats_lock = w
  /\ stats' = Counted(stats, rsuccess[w])
  /\ rpc' = [rpc EXCEPT ![w] = "model"]
  /\ UNCHANGED << model_aliases, stats_lock, per_model, collector_records,
                  total_recorded, collector_finalized, rleft, rsuccess, rcalls,
                  rappended >>
  /\ UNCHANGED metricRest

\* the counters of the target's alias, and the end of the with block
RecordModel(w) ==
  /\ rpc[w] = "model"
  /\ stats_lock = w
  /\ per_model' = [per_model EXCEPT ![model_aliases[w]] = Counted(@, rsuccess[w])]
  /\ stats_lock' = Free
  /\ rpc' = [rpc EXCEPT ![w] = "collect"]
  /\ UNCHANGED << model_aliases, stats, collector_records, total_recorded,
                  collector_finalized, rleft, rsuccess, rcalls, rappended >>
  /\ UNCHANGED metricRest

\* MetricsCollector.record_task: under the collector's lock the record is
\* appended and counted, unless the collector is finalized
RecordTask(w) ==
  /\ rpc[w] = "collect"
  /\ IF collector_finalized
       THEN UNCHANGED << collector_records, total_recorded, rappended >>
       ELSE /\ collector_records' =
                 Append(collector_records, [model |-> model_aliases[w], success |-> rsuccess[w]])
            /\ total_recorded' = total_recorded + 1
            /\ rappended' = [rappended EXCEPT ![w] = @ + 1]
  /\ rpc' = [rpc EXCEPT ![w] = IF rleft[w] > 0 THEN "idle" ELSE "done"]
  /\ UNCHANGED << model_aliases, stats_lock, stats, per_model, collector_finalized,
                  rleft, rsuccess, rcalls >>
  /\ UNCHANGED metricRest

\* Pipeline.run after runner.run() has joined every worker:
\* MetricsSummaryReporter.finalize flushes the collector and finalizes it
CollectorFinalize ==
  /\ \A w \in MetricWorkers : rpc[w] = "done"
  /\ ~collector_finalized
  /\ collector_records' = << >>
  /\ collector_finalized' = TRUE
  /\ UNCHANGED << model_aliases, stats_lock, stats, per_model, total_recorded, rpc,
                  rleft, rsuccess, rcalls, rappended >>
  /\ UNCHANGED metricRest

NextMetrics ==
  \/ \E w \in MetricWorkers : RecordAcquire(w)
  \/ \E w \in MetricWorkers : RecordGlobal(w)
  \/ \E w \in MetricWorkers : RecordModel(w)
  \/ \E w \in MetricWorkers : RecordTask(w)
  \/ CollectorFinalize

\* ================================================================ job pool
\* WorkerPool with its asyncio workers, the jobs table of JobManager, the
\* GracefulShutdown event and the CheckpointManager
\* (src/src/llmplotbot/core/worker_pool.py, job_manager.py,
\* graceful_shutdown.py, src/llmplotbot/core/checkpoint_manager.py).

MaxJobs == 2
PoolModels == 2
MaxPerCheckpoint == 2
MaxCkSeconds == 2
MaxRuns == 2

PoolWorkers == {"first", "second"}

Jobs == 1..MaxJobs

NoJob == 0

\* variant: only the count of outcomes triggers a checkpoint
CheckpointDue_CountOnly(count, elapsed, per, seconds) == count >= per

\* maybe_checkpoint: _processed_since_checkpoint >= jobs_per_checkpoint
\*                   or elapsed >= interval_seconds
CheckpointDue(count, elapsed, per, seconds) == count >= per \/ elapsed >= seconds

\* SELECT COUNT(*) FROM jobs WHERE status='pending'
PendingJobs(st) == Cardinality({ j \in Jobs : st[j] = "pending" })

\* UPDATE jobs SET status='pending' WHERE status='processing'
Recovered(st) == [j \in Jobs |-> IF st[j] = "processing" THEN "pending" ELSE st[j]]

InitPool ==
  /\ jobs_per_checkpoint \in 1..MaxPerCheckpoint
  /\ interval_seconds \in 1..MaxCkSeconds
  /\ pool_shutdown = FALSE
  /\ job_status = [j \in Jobs |-> "pending"]
  /\ ppc = [w \in PoolWorkers |-> "top"]
  /\ pjob = [w \in PoolWorkers |-> NoJob]
  /\ pidx = [w \in PoolWorkers |-> 0]
  /\ psucc = [w \in PoolWorkers |-> 0]
  /\ pcut = [w \in PoolWorkers |-> FALSE]
  /\ ppending = [w \in PoolWorkers |-> 0]
  /\ pool_completed = 0
  /\ pool_failed = 0
  /\ processed_since_checkpoint = 0
  /\ ck_elapsed = 0
  /\ checkpoints = << >>
  /\ pruns = 1
  /\ pfinished = {}

PoolParked ==
  /\ jobs_per_checkpoint = 1
  /\ interval_seconds = 1
  /\ pool_shutdown = FALSE
  /\ job_status = [j \in Jobs |-> "pending"]
  /\ ppc = [w \in PoolWorkers |-> "parked"]
  /\ pjob = [w \in PoolWorkers |-> NoJob]
  /\ pidx = [w \in PoolWorkers |-> 0]
  /\ psucc = [w \in PoolWorkers |-> 0]
  /\ pcut = [w \in PoolWorkers |-> FALSE]
  /\ ppending = [w \in PoolWorkers |-> 0]
  /\ pool_completed = 0
  /\ pool_failed = 0
  /\ processed_since_checkpoint = 0
  /\ ck_elapsed = 0
  /\ checkpoints = << >>
  /\ pruns = 1
  /\ pfinished = {}

poolRest == << runnerVars, storeVars, mergeVars, flushVars, planVars, connVars,
              shutVars, runVars, parseVars, metricVars, extractVars,
  finalVars >>

poolConfig == << jobs_per_checkpoint, interval_seconds >>

poolCounters == << pool_completed, pool_failed, processed_since_checkpoint,
                  ck_elapsed, checkpoints >>

\* GracefulShutdown.trigger, run by the event loop's signal handler while the
\* workers are suspended
PoolTrigger ==
  /\ ~pool_shutdown
  /\ \E w \in PoolWorkers : ppc[w] \notin {"stopped", "parked"}
  /\ pool_shutdown' = TRUE
  /\ UNCHANGED << poolConfig, job_status, ppc, pjob, pidx, psucc, pcut, ppending,
                  poolCounters, pruns, pfinished >>
  /\ UNCHANGED poolRest

\* _worker: `while not self.shutdown.is_triggered()`, up to the await of fetch_job
PoolTop(w) ==
  /\ ppc[w] = "top"
  /\ ppc' = [ppc EXCEPT ![w] = IF pool_shutdown THEN "stopped" ELSE "fetch"]
  /\ UNCHANGED << poolConfig, pool_shutdown, job_status, pjob, pidx, psucc, pcut,
                  ppending, poolCounters, pruns, pfinished >>
  /\ UNCHANGED poolRest

\* JobManager.fetch_job: a pending job becomes 'processing' and is handed out;
\* without one the worker ends (pending_jobs() == 0)
PoolFetch(w) ==
  /\ ppc[w] = "fetch"
  /\ IF \E j \in Jobs : job_status[j] = "pending"
       THEN \E j \in Jobs :
              /\ job_status[j] = "pending"
              /\ job_status' = [job_status EXCEPT ![j] = "processing"]
              /\ pjob' = [pjob EXCEPT ![w] = j]
              /\ pidx' = [pidx EXCEPT ![w] = 1]
              /\ psucc' = [psucc EXCEPT ![w] = 0]
              /\ pcut' = [pcut EXCEPT ![w] = FALSE]
              /\ ppc' = [ppc EXCEPT ![w] = "model"]
       ELSE /\ ppc' = [ppc EXCEPT ![w] = "stopped"]
            /\ UNCHANGED << job_status, pjob, pidx, psucc, pcut >>
  /\ UNCHANGED << poolConfig, pool_shutdown, ppending, poolCounters, pruns, pfinished >>
  /\ UNCHANGED poolRest

\* _process_job: the head of `for model, connector in connectors.items()`
\* with `if self.shutdown.is_triggered(): break`
PoolModel(w) ==
  /\ ppc[w] = "model"
  /\ IF pidx[w] > PoolModels
       THEN /\ ppc' = [ppc EXCEPT ![w] = "mark"]
            /\ UNCHANGED pcut
       ELSE IF pool_shutdown
         THEN /\ ppc' = [ppc EXCEPT ![w] = "mark"]
              /\ pcut' = [pcut EXCEPT ![w] = TRUE]
         ELSE /\ ppc' = [ppc EXCEPT ![w] = "invoke"]
              /\ UNCHANGED pcut
  /\ UNCHANGED << poolConfig, pool_shutdown, job_status, pjob, pidx, psucc,
                  ppending, poolCounters, pruns, pfinished >>
  /\ UNCHANGED poolRest

\* _invoke_model: a result, or "failed" after the attempts are used up or
\* after the shutdown has ended the retry loop
PoolInvoke(w) ==
  /\ ppc[w] = "invoke"
  /\ \E out \in {"success", "failed", "cut"} :
       /\ out = "cut" => pool_shutdown
       /\ psucc' = [psucc EXCEPT ![w] = @ + (IF out = "success" THEN 1 ELSE 0)]
       /\ pcut' = [pcut EXCEPT ![w] = @ \/ out = "cut"]
  /\ pidx' = [pidx EXCEPT ![w] = @ + 1]
  /\ ppc' = [ppc EXCEPT ![w] = "model"]
  /\ UNCHANGED << poolConfig, pool_shutdown, job_status, pjob, ppending,
                  poolCounters, pruns, pfinished >>
  /\ UNCHANGED poolRest

\* _process_job after the loop: mark_success when a model produced a result,
\* else mark_failure(retry=False); then the await of pending_jobs
PoolMark(w) ==
  /\ ppc[w] = "mark"
  /\ job_status' = [job_status EXCEPT ![pjob[w]] =
                      IF psucc[w] > 0 THEN "completed" ELSE "failed"]
  /\ pfinished' = pfinished \cup {pjob[w]}
  /\ ppc' = [ppc EXCEPT ![w] = "read"]
  /\ UNCHANGED << poolConfig, pool_shutdown, pjob, pidx, psucc, pcut, ppending,
                  poolCounters, pruns >>
  /\ UNCHANGED poolRest

\* _update_counters: pending = await asyncio.to_thread(pending_jobs)
PoolRead(w) ==
  /\ ppc[w] = "read"
  /\ ppending' = [ppending EXCEPT ![w] = PendingJobs(job_status)]
  /\ ppc' = [ppc EXCEPT ![w] = "update"]
  /\ UNCHANGED << poolConfig, pool_shutdown, job_status, pjob, pidx, psucc, pcut,
                  poolCounters, pruns, pfinished >>
  /\ UNCHANGED poolRest

\* _update_counters from the lock on, and CheckpointManager.maybe_checkpoint
\* (no suspension point in between)
PoolUpdate(w) ==
  /\ ppc[w] = "update"
  /\ LET ok == psucc[w] > 0
         completed == pool_completed + (IF ok THEN 1 ELSE 0)
         nfailed == pool_failed + (IF ok THEN 0 ELSE 1)
         state == [last_job_id |-> pjob[w], total_completed |-> completed,
                   total_failed |-> nfailed, pending |-> ppending[w]]
     IN /\ pool_completed' = completed
        /\ pool_failed' = nfailed
        /\ IF CheckpointDue(processed_since_checkpoint + 1, ck_elapsed,
                            jobs_per_checkpoint, interval_seconds)
             THEN /\ checkpoints' = Append(checkpoints, state)
                  /\ processed_since_checkpoint' = 0
                  /\ ck_elapsed' = 0
             ELSE /\ processed_since_checkpoint' = processed_since_checkpoint + 1
                  /\ UNCHANGED << checkpoints, ck_elapsed >>
  /\ ppc' = [ppc EXCEPT ![w] = "top"]
  /\ pjob' = [pjob EXCEPT ![w] = NoJob]
  /\ pidx' = [pidx EXCEPT ![w] = 0]
  /\ psucc' = [psucc EXCEPT ![w] = 0]
  /\ pcut' = [pcut EXCEPT ![w] = FALSE]
  /\ ppending' = [ppending EXCEPT ![w] = 0]
  /\ UNCHANGED << poolConfig, pool_shutdown, job_status, pruns, pfinished >>
  /\ UNCHANGED poolRest

\* time.monotonic() advances
PoolTick ==
  /\ \E w \in PoolWorkers : ppc[w] \notin {"stopped", "parked"}
  /\ ck_elapsed < MaxCkSeconds
  /\ ck_elapsed' = ck_elapsed + 1
  /\ UNCHANGED << poolConfig, pool_shutdown, job_status, ppc, pjob, pidx, psucc,
                  pcut, ppending, pool_completed, pool_failed,
                  processed_since_checkpoint, checkpoints, pruns, pfinished >>
  /\ UNCHANGED poolRest

\* the process is killed: every worker ends where it is
PoolKill ==
  /\ pruns < MaxRuns
  /\ \E w \in PoolWorkers : ppc[w] \notin {"stopped", "top"}
  /\ ppc' = [w \in PoolWorkers |-> "stopped"]
  /\ pjob' = [w \in PoolWorkers |-> NoJob]
  /\ pidx' = [w \in PoolWorkers |-> 0]
  /\ psucc' = [w \in PoolWorkers |-> 0]
  /\ pcut' = [w \in PoolWorkers |-> FALSE]
  /\ ppending' = [w \in PoolWorkers |-> 0]
  /\ UNCHANGED << poolConfig, pool_shutdown, job_status, poolCounters, pruns, pfinished >>
  /\ UNCHANGED poolRest

\* the next run: JobManager.initialize -> recover_incomplete_jobs, a new
\* WorkerPool, CheckpointManager and GracefulShutdown
PoolRestart ==
  /\ pruns < MaxRuns
  /\ \A w \in PoolWorkers : ppc[w] = "stopped"
  /\ pruns' = pruns + 1
  /\ job_status' = Recovered(job_status)
  /\ pool_shutdown' = FALSE
  /\ ppc' = [w \in PoolWorkers |-> "top"]
  /\ UNCHANGED << pjob, pidx, psucc, pcut, ppending >>
  /\ pool_completed' = 0
  /\ pool_failed' = 0
  /\ processed_since_checkpoint' = 0
  /\ ck_elapsed' = 0
  /\ checkpoints' = << >>
  /\ UNCHANGED << poolConfig, pfinished >>
  /\ UNCHANGED poolRest

PoolWorker(w) ==
  \/ PoolTop(w)
  \/ PoolFetch(w)
  \/ PoolModel(w)
  \/ PoolInvoke(w)
  \/ PoolMark(w)
  \/ PoolRead(w)
  \/ PoolUpdate(w)

NextPool ==
  \/ \E w \in PoolWorkers : PoolWorker(w)
  \/ PoolTrigger
  \/ PoolTick
  \/ PoolKill
  \/ PoolRestart

\* ================================================================ extraction
\* ModelConnector._extract_response_entries and _repair_and_parse_json on one
\* reply (src/src/core/model_connector.py).  The assistant content is a
\* sequence of pieces of text: a code fence, prose, a flat object ("o1", "o2"),
\* a brace pair that is no JSON ("bad"), a number, brackets and commas.

MaxTokens == 4

Tokens == {"fence", "prose", "o1", "o2", "bad", "[", "]", ",", "num"}

\* text that starts with '{', ends with '}' and has no brace inside
Brace(t) == t \in {"o1", "o2", "bad"}

RECURSIVE TokenSeqs(_)
TokenSeqs(n) ==
  IF n = 0 THEN { << >> }
  ELSE TokenSeqs(n - 1) \cup
       { Append(s, t) : s \in { q \in TokenSeqs(n - 1) : Len(q) = n - 1 }, t \in Tokens }

Fail == [kind |-> "fail", items |-> << >>]

\* the index of the ']' that closes the '[' at the head of seq, or 0
RECURSIVE CloseAt(_, _, _)
CloseAt(seq, i, depth) ==
  IF i > Len(seq) THEN 0
  ELSE IF seq[i] = "[" THEN CloseAt(seq, i + 1, depth + 1)
  ELSE IF seq[i] = "]" THEN (IF depth = 1 THEN i ELSE CloseAt(seq, i + 1, depth - 1))
  ELSE CloseAt(seq, i + 1, depth)

\* the length of the JSON value at the head of seq, or 0; and whether seq is
\* one or more values separated by commas
RECURSIVE ValueEnd(_), ValuesOK(_)
ValueEnd(seq) ==
  IF seq = << >> THEN 0
  ELSE IF seq[1] \in {"o1", "o2", "num"} THEN 1
  ELSE IF seq[1] = "[" THEN
    LET c == CloseAt(seq, 1, 0)
    IN IF c # 0 /\ (c = 2 \/ ValuesOK(SubSeq(seq, 2, c - 1))) THEN c ELSE 0
  ELSE 0

ValuesOK(seq) ==
  LET e == ValueEnd(seq)
  IN /\ e > 0
     /\ \/ e = Len(seq)
        \/ /\ e + 1 < Len(seq)
           /\ seq[e + 1] = ","
           /\ ValuesOK(SubSeq(seq, e + 2, Len(seq)))

\* the items of such a sequence: an object as itself, anything else as "other"
RECURSIVE ItemsOf(_)
ItemsOf(seq) ==
  IF seq = << >> THEN << >>
  ELSE LET e == ValueEnd(seq)
           item == IF seq[1] \in {"o1", "o2"} THEN seq[1] ELSE "other"
       IN << item >> \o (IF e = Len(seq) THEN << >> ELSE ItemsOf(SubSeq(seq, e + 2, Len(seq))))

\* json.loads of a text that passed _trim_to_json: an object, an array, or an
\* exception
json_loads(seq) ==
  IF seq = << >> \/ ValueEnd(seq) # Len(seq) \/ seq[1] = "num" THEN Fail
  ELSE IF seq[1] = "[" THEN [kind |-> "list", items |-> ItemsOf(SubSeq(seq, 2, Len(seq) - 1))]
  ELSE [kind |-> "dict", items |-> << seq[1] >>]

\* re.sub(r"```(?:json)?", "", original) and replace("```", "")
StripFences(seq) == SelectSeq(seq, LAMBDA t : t # "fence")

NoText == [found |-> FALSE, text |-> << >>]

\* _trim_to_json: the text itself when it starts with a bracket or brace and
\* ends with one, else the span of the braces, else the span of the brackets
trim_to_json(seq) ==
  IF seq = << >> THEN NoText
  ELSE IF (Brace(seq[1]) \/ seq[1] = "[") /\ (Brace(seq[Len(seq)]) \/ seq[Len(seq)] = "]")
    THEN [found |-> TRUE, text |-> seq]
  ELSE LET objs == { i \in 1..Len(seq) : Brace(seq[i]) }
           opens == { i \in 1..Len(seq) : seq[i] = "[" }
           closes == { i \in 1..Len(seq) : seq[i] = "]" }
           lo(S) == CHOOSE i \in S : \A j \in S : i <= j
           hi(S) == CHOOSE i \in S : \A j \in S : i >= j
       IN IF objs # {} THEN [found |-> TRUE, text |-> SubSeq(seq, lo(objs), hi(objs))]
          ELSE IF opens # {} /\ closes # {} /\ hi(closes) > lo(opens)
            THEN [found |-> TRUE, text |-> SubSeq(seq, lo(opens), hi(closes))]
          ELSE NoText

\* the direct parse of one candidate
DirectOf(cand) ==
  IF trim_to_json(cand).found THEN json_loads(trim_to_json(cand).text) ELSE Fail

\* `for candidate in (fence_cleaned, original)`
Direct(content) ==
  IF DirectOf(StripFences(content)) # Fail THEN DirectOf(StripFences(content))
  ELSE DirectOf(content)

\* re.sub(r"}\s*{", "},{", fence_cleaned)
RECURSIVE Squashed(_)
Squashed(seq) ==
  IF Len(seq) < 2 THEN seq
  ELSE << seq[1] >> \o (IF Brace(seq[1]) /\ Brace(seq[2]) THEN << "," >> ELSE << >>)
       \o Squashed(Tail(seq))

\* the parse of "[" + squashed + "]" when the substitution changed the text
Squash(content) ==
  LET cleaned == StripFences(content)
  IN IF Squashed(cleaned) # cleaned
       THEN json_loads(<< "[" >> \o Squashed(cleaned) \o << "]" >>)
       ELSE Fail

\* re.findall(r"\{[^{}]*\}", fence_cleaned), each fragment parsed on its own
Fragments(content) ==
  LET found == SelectSeq(StripFences(content), LAMBDA t : t \in {"o1", "o2"})
  IN IF found = << >> THEN Fail ELSE [kind |-> "list", items |-> found]

\* _repair_and_parse_json: the first of the three that yields a value
repair_and_parse_json(content) ==
  IF Direct(content) # Fail THEN Direct(content)
  ELSE IF Squash(content) # Fail THEN Squash(content)
  ELSE Fragments(content)

Unparseable == [kind |-> "unparseable", entries |-> << >>]
Raised == [kind |-> "raised", entries |-> << >>]

\* _extract_response_entries: json.loads of the body (only JSONDecodeError is
\* caught), the envelope, the repair, and the objects among the items
extract_response_entries(raw, envelope, content) ==
  IF raw = "malformed" THEN Unparseable
  ELSE IF raw = "overflow" THEN Raised
  ELSE IF ~envelope THEN Unparseable
  ELSE LET repaired == repair_and_parse_json(content)
           dicts == SelectSeq(repaired.items, LAMBDA t : t \in {"o1", "o2"})
       IN IF repaired = Fail \/ dicts = << >> THEN Unparseable
          ELSE [kind |-> "entries", entries |-> dicts]

InitExtract ==
  /\ ex_raw \in {"malformed", "overflow", "json"}
  /\ ex_envelope \in BOOLEAN
  /\ ex_content \in TokenSeqs(MaxTokens)
  /\ (ex_raw # "json" => ex_envelope = FALSE)
  /\ (~ex_envelope => ex_content = << >>)
  /\ ex_result = Unparseable
  /\ ex_pc = "reply"

ExtractParked ==
  /\ ex_raw = "malformed"
  /\ ex_envelope = FALSE
  /\ ex_content = << >>
  /\ ex_result = Unparseable
  /\ ex_pc = "parked"

extractRest == << runnerVars, storeVars, mergeVars, flushVars, planVars, connVars,
                 shutVars, runVars, parseVars, metricVars, poolVars,
  finalVars >>

\* send_batch: parsed_entries, content_text = self._extract_response_entries(raw_text)
ExExtract ==
  /\ ex_pc = "reply"
  /\ ex_result' = extract_response_entries(ex_raw, ex_envelope, ex_content)
  /\ ex_pc' = "extracted"
  /\ UNCHANGED << ex_raw, ex_envelope, ex_content >>
  /\ UNCHANGED extractRest

NextExtract == ExExtract

\* ============================================================ finalization
\* MetricsSummaryReporter and MetricsCollector as two threads call them
\* (src/src/core/metrics_summary.py, metrics_collector.py): finalize, report,
\* handle_shutdown_signal, and record_task followed by maybe_report.  No
\* periodic thread here (summary_every_seconds = 0).

MaxApiCalls == 4

Callers == {"main", "worker"}
ApiCalls == {"finalize", "report", "signal", "record"}

\* a returned summary (None, or a summary over `total` records) or count
NoSummary == [some |-> FALSE, total |-> 0]
SummaryOf(n) == [some |-> TRUE, total |-> n]
NoReturn == [call |-> "none", value |-> NoSummary]

FirstLabel(call) ==
  IF call = "finalize" THEN "fz_acquire"
  ELSE IF call = "report" THEN "rp_test"
  ELSE IF call = "signal" THEN "sg_test"
  ELSE "rc_record"

InitFinal ==
  /\ fz_every \in {0, 1}
  /\ fz_lock = Free
  /\ fz_finalized = FALSE
  /\ fz_final_summary = NoSummary
  /\ fz_emitted = FALSE
  /\ fz_cfinalized = FALSE
  /\ fz_records = 0
  /\ fz_total = 0
  /\ fz_last_count = 0
  /\ fz_flushed = 0
  /\ fz_written = [snapshots |-> 0, dumps |-> 0, finals |-> 0]
  /\ fz_pc = [c \in Callers |-> "idle"]
  /\ fz_after = [c \in Callers |-> FALSE]
  /\ fz_arg = [c \in Callers |-> 0]
  /\ fz_ret = [c \in Callers |-> NoReturn]
  /\ fz_calls = 0
  /\ fz_done = FALSE

FinalParked ==
  /\ InitFinal
  /\ fz_every = 0

finalRest == << runnerVars, storeVars, mergeVars, flushVars, planVars, connVars,
               shutVars, runVars, parseVars, metricVars, poolVars, extractVars >>

\* a thread enters one of the calls; fz_after tells whether a finalize call
\* had returned by then
FzBegin(c) ==
  /\ fz_pc[c] = "idle"
  /\ fz_calls < MaxApiCalls
  /\ \E call \in ApiCalls : fz_pc' = [fz_pc EXCEPT ![c] = FirstLabel(call)]
  /\ fz_after' = [fz_after EXCEPT ![c] = fz_done]
  /\ fz_ret' = [fz_ret EXCEPT ![c] = NoReturn]
  /\ fz_calls' = fz_calls + 1
  /\ UNCHANGED << fz_every, fz_lock, fz_finalized, fz_final_summary, fz_emitted,
                  fz_cfinalized, fz_records, fz_total, fz_last_count, fz_flushed,
                  fz_written, fz_arg, fz_done >>
  /\ UNCHANGED finalRest

\* finalize: `with self._lock: if self._finalized: return self._final_summary`,
\* else self._finalized = True
FzAcquire(c) ==
  /\ fz_pc[c] = "fz_acquire"
  /\ fz_lock = Free
  /\ IF fz_finalized
       THEN /\ fz_ret' = [fz_ret EXCEPT ![c] = [call |-> "finalize", value |-> fz_final_summary]]
            /\ fz_pc' = [fz_pc EXCEPT ![c] = "idle"]
            /\ UNCHANGED << fz_lock, fz_finalized >>
       ELSE /\ fz_lock' = c
            /\ fz_finalized' = TRUE
            /\ fz_pc' = [fz_pc EXCEPT ![c] = "fz_flush"]
            /\ UNCHANGED fz_ret
  /\ UNCHANGED << fz_every, fz_final_summary, fz_emitted, fz_cfinalized, fz_records,
                  fz_total, fz_last_count, fz_flushed, fz_written, fz_after,
                  fz_arg, fz_calls, fz_done >>
  /\ UNCHANGED finalRest

\* finalize: self.stop() (no thread to join); records = self.collector.flush()
FzFlush(c) ==
  /\ fz_pc[c] = "fz_flush"
  /\ fz_flushed' = fz_records
  /\ fz_records' = 0
  /\ fz_pc' = [fz_pc EXCEPT ![c] = "fz_cfinal"]
  /\ UNCHANGED << fz_every, fz_lock, fz_finalized, fz_final_summary, fz_emitted,
                  fz_cfinalized, fz_total, fz_last_count, fz_written, fz_after,
                  fz_arg, fz_ret, fz_calls, fz_done >>
  /\ UNCHANGED finalRest

\* finalize: self.collector.finalize()
FzCollectorFinalize(c) ==
  /\ fz_pc[c] = "fz_cfinal"
  /\ fz_cfinalized' = TRUE
  /\ fz_pc' = [fz_pc EXCEPT ![c] = "fz_emit"]
  /\ UNCHANGED << fz_every, fz_lock, fz_finalized, fz_final_summary, fz_emitted,
                  fz_records, fz_total, fz_last_count, fz_flushed, fz_written,
                  fz_after, fz_arg, fz_ret, fz_calls, fz_done >>
  /\ UNCHANGED finalRest

\* finalize: _build_summary, _write_metrics_dump, _write_summary_snapshot,
\* self._final_summary = summary; the lock is released
FzEmit(c) ==
  /\ fz_pc[c] = "fz_emit"
  /\ fz_last_count' = fz_flushed
  /\ fz_written' = [fz_written EXCEPT !.dumps = @ + 1, !.finals = @ + 1]
  /\ fz_final_summary' = SummaryOf(fz_flushed)
  /\ fz_ret' = [fz_ret EXCEPT ![c] = [call |-> "finalize", value |-> SummaryOf(fz_flushed)]]
  /\ fz_lock' = Free
  /\ fz_done' = TRUE
  /\ fz_pc' = [fz_pc EXCEPT ![c] = "idle"]
  /\ UNCHANGED << fz_every, fz_finalized, fz_emitted, fz_cfinalized, fz_records,
                  fz_total, fz_flushed, fz_after, fz_arg, fz_calls >>
  /\ UNCHANGED finalRest

\* variant: report has no early return
ReportReturnsEarly_Never(flag) == FALSE

\* report: `if self._finalized: return self._final_summary`, before the lock
ReportReturnsEarly(flag) == flag

RpTest(c) ==
  /\ fz_pc[c] = "rp_test"
  /\ IF ReportReturnsEarly(fz_finalized)
       THEN /\ fz_ret' = [fz_ret EXCEPT ![c] = [call |-> "report", value |-> fz_final_summary]]
            /\ fz_pc' = [fz_pc EXCEPT ![c] = "idle"]
       ELSE /\ fz_pc' = [fz_pc EXCEPT ![c] = "rp_acquire"]
            /\ UNCHANGED fz_ret
  /\ UNCHANGED << fz_every, fz_lock, fz_finalized, fz_final_summary, fz_emitted,
                  fz_cfinalized, fz_records, fz_total, fz_last_count, fz_flushed,
                  fz_written, fz_after, fz_arg, fz_calls, fz_done >>
  /\ UNCHANGED finalRest

\* report under the lock: export(clear=False), the snapshot is written
RpWrite(c) ==
  /\ fz_pc[c] = "rp_acquire"
  /\ fz_lock = Free
  /\ fz_last_count' = fz_records
  /\ fz_written' = [fz_written EXCEPT !.snapshots = @ + 1]
  /\ fz_ret' = [fz_ret EXCEPT ![c] = [call |-> "report", value |-> SummaryOf(fz_records)]]
  /\ fz_pc' = [fz_pc EXCEPT ![c] = "idle"]
  /\ UNCHANGED << fz_every, fz_lock, fz_finalized, fz_final_summary, fz_emitted,
                  fz_cfinalized, fz_records, fz_total, fz_flushed, fz_after,
                  fz_arg, fz_calls, fz_done >>
  /\ UNCHANGED finalRest

\* handle_shutdown_signal: `if self._finalized: return`
SgTest(c) ==
  /\ fz_pc[c] = "sg_test"
  /\ fz_pc' = [fz_pc EXCEPT ![c] = IF fz_finalized THEN "idle" ELSE "sg_acquire"]
  /\ UNCHANGED << fz_every, fz_lock, fz_finalized, fz_final_summary, fz_emitted,
                  fz_cfinalized, fz_records, fz_total, fz_last_count, fz_flushed,
                  fz_written, fz_after, fz_arg, fz_ret, fz_calls, fz_done >>
  /\ UNCHANGED finalRest

\* handle_shutdown_signal under the lock: once only, the snapshot is written
SgWrite(c) ==
  /\ fz_pc[c] = "sg_acquire"
  /\ fz_lock = Free
  /\ IF fz_emitted
       THEN UNCHANGED << fz_last_count, fz_written, fz_emitted >>
       ELSE /\ fz_last_count' = fz_records
            /\ fz_written' = [fz_written EXCEPT !.snapshots = @ + 1]
            /\ fz_emitted' = TRUE
  /\ fz_pc' = [fz_pc EXCEPT ![c] = "idle"]
  /\ UNCHANGED << fz_every, fz_lock, fz_finalized, fz_final_summary,
                  fz_cfinalized, fz_records, fz_total, fz_flushed, fz_after,
                  fz_arg, fz_ret, fz_calls, fz_done >>
  /\ UNCHANGED finalRest

\* MetricsCollector.record_task under the collector's lock
RcRecord(c) ==
  /\ fz_pc[c] = "rc_record"
  /\ IF fz_cfinalized
       THEN /\ UNCHANGED << fz_records, fz_total >>
            /\ fz_arg' = [fz_arg EXCEPT ![c] = fz_total]
            /\ fz_ret' = [fz_ret EXCEPT ![c] = [call |-> "record", value |-> SummaryOf(fz_total)]]
       ELSE /\ fz_records' = fz_records + 1
            /\ fz_total' = fz_total + 1
            /\ fz_arg' = [fz_arg EXCEPT ![c] = fz_total + 1]
            /\ fz_ret' = [fz_ret EXCEPT ![c] = [call |-> "record", value |-> SummaryOf(fz_total + 1)]]
  /\ fz_pc' = [fz_pc EXCEPT ![c] = "mr_test"]
  /\ UNCHANGED << fz_every, fz_lock, fz_finalized, fz_final_summary, fz_emitted,
                  fz_cfinalized, fz_last_count, fz_flushed, fz_written, fz_after,
                  fz_calls, fz_done >>
  /\ UNCHANGED finalRest

\* maybe_report(total_records): finalized, no task interval, or the interval
\* not reached: return; else report
MrTest(c) ==
  /\ fz_pc[c] = "mr_test"
  /\ fz_pc' = [fz_pc EXCEPT ![c] =
                 IF fz_finalized \/ fz_every <= 0 THEN "idle"
                 ELSE IF fz_arg[c] - fz_last_count < fz_every THEN "idle"
                 ELSE "rp_test"]
  /\ fz_arg' = [fz_arg EXCEPT ![c] = 0]
  /\ UNCHANGED << fz_every, fz_lock, fz_finalized, fz_final_summary, fz_emitted,
                  fz_cfinalized, fz_records, fz_total, fz_last_count, fz_flushed,
                  fz_written, fz_after, fz_ret, fz_calls, fz_done >>
  /\ UNCHANGED finalRest

NextFinal ==
  \/ \E c \in Callers : FzBegin(c)
  \/ \E c \in Callers : FzAcquire(c)
  \/ \E c \in Callers : FzFlush(c)
  \/ \E c \in Callers : FzCollectorFinalize(c)
  \/ \E c \in Callers : FzEmit(c)
  \/ \E c \in Callers : RpTest(c)
  \/ \E c \in Callers : RpWrite(c)
  \/ \E c \in Callers : SgTest(c)
  \/ \E c \in Callers : SgWrite(c)
  \/ \E c \in Callers : RcRecord(c)
  \/ \E c \in Callers : MrTest(c)

\* the worker parked: only the store moves
RunnerParked ==
  /\ InitRunner
  /\ retry_limit = 0
  /\ max_batch_size = 1
  /\ compliance_interval = 0

AuxParked == MergeParked /\ FlushParked /\ PlanParked /\ ConnParked /\ ShutParked /\ RunParked /\ ParseParked /\ MetricsParked /\ PoolParked /\ ExtractParked /\ FinalParked

Init == InitRunner /\ InitStore /\ AuxParked

InitS == RunnerParked /\ InitStore /\ AuxParked

InitM == RunnerParked /\ InitStore /\ InitMerge /\ FlushParked /\ PlanParked /\ ConnParked /\ ShutParked /\ RunParked /\ ParseParked /\ MetricsParked /\ PoolParked /\ ExtractParked /\ FinalParked

InitF == RunnerParked /\ InitStore /\ MergeParked /\ InitFlush /\ PlanParked /\ ConnParked /\ ShutParked /\ RunParked /\ ParseParked /\ MetricsParked /\ PoolParked /\ ExtractParked /\ FinalParked

InitP == RunnerParked /\ InitStore /\ MergeParked /\ FlushParked /\ InitPlan /\ ConnParked /\ ShutParked /\ RunParked /\ ParseParked /\ MetricsParked /\ PoolParked /\ ExtractParked /\ FinalParked

InitC == RunnerParked /\ InitStore /\ MergeParked /\ FlushParked /\ PlanParked /\ InitConn /\ ShutParked /\ RunParked /\ ParseParked /\ MetricsParked /\ PoolParked /\ ExtractParked /\ FinalParked

Spec == Init /\ [][NextRunner]_vars

\* the worker thread keeps running; the signal may or may not come
WorkerMoves ==
  StartWorker \/ LoopTop \/ SendBatch \/ Route \/ RetryDecide \/ Requeue \/ FinalSweep

SpecFair == Init /\ [][NextRunner]_vars /\ WF_vars(WorkerMoves)

SpecStore == InitS /\ [][NextStore]_vars

SpecMerge == InitM /\ [][NextMerge]_vars

SpecFlush == InitF /\ [][NextFlush]_vars

SpecPlan == InitP /\ [][NextPlan]_vars

SpecConn == InitC /\ [][NextConn]_vars

InitE == RunnerParked /\ InitStore /\ MergeParked /\ FlushParked /\ PlanParked /\ ConnParked /\ InitShut /\ RunParked /\ ParseParked /\ MetricsParked /\ PoolParked /\ ExtractParked /\ FinalParked

InitR == RunnerParked /\ InitStore /\ MergeParked /\ FlushParked /\ PlanParked /\ ConnParked /\ ShutParked /\ InitRun /\ ParseParked /\ MetricsParked /\ PoolParked /\ ExtractParked /\ FinalParked

SpecRun == InitR /\ [][NextRun]_vars

\* the main thread and every started worker thread keep running
SpecRunFair ==
  SpecRun /\ WF_vars(RunMain) /\ \A t \in RunTargets : WF_vars(RunWorker(t))

InitB == RunnerParked /\ InitStore /\ MergeParked /\ FlushParked /\ PlanParked /\ ConnParked /\ ShutParked /\ RunParked /\ InitParse /\ MetricsParked /\ PoolParked /\ ExtractParked /\ FinalParked

SpecParse == InitB /\ [][NextParse]_vars

InitK == RunnerParked /\ InitStore /\ MergeParked /\ FlushParked /\ PlanParked /\ ConnParked /\ ShutParked /\ RunParked /\ ParseParked /\ InitMetrics /\ PoolParked /\ ExtractParked /\ FinalParked

SpecMetrics == InitK /\ [][NextMetrics]_vars

InitJ == RunnerParked /\ InitStore /\ MergeParked /\ FlushParked /\ PlanParked /\ ConnParked /\ ShutParked /\ RunParked /\ ParseParked /\ MetricsParked /\ InitPool /\ ExtractParked /\ FinalParked

SpecPool == InitJ /\ [][NextPool]_vars

InitX == RunnerParked /\ InitStore /\ MergeParked /\ FlushParked /\ PlanParked /\ ConnParked /\ ShutParked /\ RunParked /\ ParseParked /\ MetricsParked /\ PoolParked /\ InitExtract /\ FinalParked

SpecExtract == InitX /\ [][NextExtract]_vars

InitZ == RunnerParked /\ InitStore /\ MergeParked /\ FlushParked /\ PlanParked /\ ConnParked /\ ShutParked /\ RunParked /\ ParseParked /\ MetricsParked /\ PoolParked /\ ExtractParked /\ InitFinal

SpecFinal == InitZ /\ [][NextFinal]_vars

SpecShut == InitE /\ [][NextShut]_vars

\* every thread that can run does run; the main thread is not overtaken for ever
\* at a lock that keeps being released
SpecShutFair ==
  SpecShut /\ SF_vars(MainStep) /\ SF_vars(HandlerStep) /\ WF_vars(PeriodicStep)
    /\ WF_vars(WorkerStep)

\* time passes, a thread inside the writer goes on, and the writer's owner keeps
\* flushing while records are buffered
SpecFlushFair ==
  /\ SpecFlush
  /\ WF_vars(FTick)
  /\ WF_vars(WriterStep)
  /\ WF_vars(FFlush)

\* ================================================================ claims
\* ---------------------------------------------------------------- C1
\* C1: while no live holder has kept the lock for stale_seconds or longer, at
\* most one writer is between a successful FileLock.acquire and its release.
C1_MutualExclusion ==
  ~overheld => Cardinality({ w \in Writers : InCS(w) }) <= 1

\* ---------------------------------------------------------------- C2
\* C2: when no write is in progress, any two writers that completed writes
\* with distinct (target, dedup_key) both have their record in the document.
WritersAtRest == \A w \in Writers : wpc[w] \in {"idle", "done", "deferred", "crashed"}

C2_BothRecordsKept ==
  (~overheld /\ WritersAtRest) =>
    \A w1, w2 \in Writers :
      (w1 # w2 /\ wpc[w1] = "done" /\ wpc[w2] = "done" /\ wkey[w1] # wkey[w2])
      => /\ doc.state = "complete"
         /\ doc.data.results[wkey[w1]] # NoRec
         /\ doc.data.results[wkey[w2]] # NoRec

\* ---------------------------------------------------------------- C3
\* C3: at every moment <identifier>.json is either missing or holds the
\* complete document of a finished write, never a partially written one.
C3_NeverPartial ==
  ~overheld => doc.state \in {"absent", "complete"}

\* ---------------------------------------------------------------- C4
\* C4: in a run without shutdown every queued task is finalized exactly once,
\* as success exactly when one record was written for it and otherwise as
\* failed with its attempt count at retry_limit; no task is attempted more
\* than retry_limit times or written twice, and at the end every task has
\* one reported outcome.
C4_FinalizedExactlyOnce ==
  ~shutdown =>
    /\ \A t \in Tasks :
         /\ tries[t] <= retry_limit
         /\ written[t] <= 1
         /\ succ[t] + fail[t] <= 1
         /\ succ[t] = written[t]
         /\ fail[t] = 1 => tries[t] = retry_limit
    /\ pc = "done" => \A t \in Tasks : succ[t] + fail[t] = 1

C4_Witness ==
  /\ pc = "done"
  /\ ~shutdown
  /\ retry_limit = 2
  /\ \E t \in Tasks : succ[t] = 1 /\ written[t] = 1 /\ tries[t] = 2
  /\ \E t \in Tasks : fail[t] = 1 /\ written[t] = 0 /\ tries[t] = 2

\* ---------------------------------------------------------------- C5
\* C5: once the retry decisions of a batch that failed as a whole with a
\* transport or HTTP error at a current size above 1 are taken, the current
\* size is half the size it was sent with and the success streak is 0
\* (stated for runs in which no shutdown was requested).
C5_HalvedAfterRequestError ==
  (/\ ~shutdown
   /\ lastB.decided
   /\ lastB.kind \in {"transport", "http"}
   /\ lastB.size > 1)
  => /\ current_batch_size = Max(1, lastB.size \div 2)
     /\ success_streak = 0

\* ---------------------------------------------------------------- C6
\* C6: a batch grows the current size, by exactly 1 and with the streak set
\* back to 0, exactly when it and the batch before it needed no retry, the
\* batch before it did not itself grow the size, and the size is below the
\* maximum; a batch that needed a retry leaves the streak at 0; no other step
\* increases the size.
C6_GrowthState ==
  lastB.routed =>
    /\ lastB.grew <=> /\ lastB.retries = 0
                      /\ prevB.routed
                      /\ prevB.retries = 0
                      /\ ~prevB.grew
                      /\ lastB.size < max_batch_size
    /\ lastB.grew => current_batch_size = lastB.size + 1 /\ success_streak = 0
    /\ lastB.retries > 0 => success_streak = 0

C6_GrowthStep ==
  current_batch_size' > current_batch_size =>
    /\ pc = "route"
    /\ lastB'.grew
    /\ current_batch_size' = current_batch_size + 1

C6_GrowsAfterTwoCleanBatches == [](C6_GrowthState) /\ [][C6_GrowthStep]_vars

C6_Witness ==
  /\ lastB.routed
  /\ lastB.grew
  /\ current_batch_size = lastB.size + 1
  /\ current_batch_size <= max_batch_size

\* ---------------------------------------------------------------- C7
\* C7 as stated: when the worker is about to send its next request after a
\* batch for which the parser recovered nothing, the current size is the one
\* that batch was sent with and one compliance reminder has been appended.
C7_AlwaysReminder ==
  (pc = "send" /\ lastB.kind = "parse")
  => /\ current_batch_size = lastB.size
     /\ manual_reminders = lastB.manual + 1
     /\ history = PruneHistory(Append(lastB.hist, Reminder))

\* C7 amended: a batch for which the parser recovered nothing never changes
\* the current size; it appends exactly one compliance reminder before the
\* next request when at least one of its items is re-queued for retry, and
\* none when every item has exhausted retry_limit.
C7_ReminderWhenRequeued ==
  lastB.kind = "parse" =>
    /\ current_batch_size = lastB.size
    /\ (lastB.decided /\ pc \in {"top", "send", "final"}) =>
         IF lastB.requeued > 0
           THEN /\ manual_reminders = lastB.manual + 1
                /\ history = PruneHistory(Append(lastB.hist, Reminder))
           ELSE /\ manual_reminders = lastB.manual
                /\ history = lastB.hist

C7_Witness ==
  /\ pc = "send"
  /\ lastB.kind = "parse"
  /\ lastB.size > 1
  /\ lastB.requeued > 0
  /\ manual_reminders = lastB.manual + 1

\* ---------------------------------------------------------------- C8
\* C8: the queue the next batch is cut from keeps the tasks in their original
\* relative order with every task that was already attempted ahead of every
\* task that was never attempted, so a retried task is sent again before any
\* fresh one, also right after the batch size was reduced.
WorkQueue == IF pc = "send" THEN batch \o pending ELSE pending

C8_RetriedFirst ==
  \A i, j \in 1..Len(WorkQueue) :
    i < j => /\ WorkQueue[i] < WorkQueue[j]
             /\ tries[WorkQueue[j]] > 0 => tries[WorkQueue[i]] > 0

C8_Witness ==
  /\ pc = "top"
  /\ lastB.requeued >= 2
  /\ current_batch_size < lastB.size
  /\ Len(pending) >= 3
  /\ tries[pending[1]] > 0
  /\ tries[pending[2]] > 0
  /\ tries[pending[Len(pending)]] = 0

\* ---------------------------------------------------------------- C9
\* C9: after the shutdown flag is set the worker sends no request except the
\* batch that was in flight at that moment (none if no batch was in flight),
\* and every record a batch returned, the in-flight one included, is written
\* once and finalized as a success once routed.
C9_NoRequestAfterShutdown ==
  /\ shutdown => /\ requests <= reqAtShutdown + 1
                 /\ flagAt # "send" => requests = reqAtShutdown
  /\ \A t \in gotRecord :
       \/ pc = "route" /\ t \in SeqSet(batch)
       \/ written[t] = 1 /\ succ[t] = 1

C9_Witness ==
  /\ pc = "done"
  /\ shutdown
  /\ flagAt = "send"
  /\ requests = reqAtShutdown + 1
  /\ requests >= 2
  /\ lastB.kind = "entries"
  /\ lastB.retries < lastB.n
  /\ pending # << >>
  /\ \E t \in SeqSet(batch) : t \in gotRecord /\ written[t] = 1 /\ succ[t] = 1

\* ---------------------------------------------------------------- C10
\* C10: when the worker has stopped with the shutdown flag set, every task
\* that was attempted and did not succeed has exactly one failed outcome,
\* wherever in the loop the flag was set; no task has two outcomes.
C10_ShutdownFinalizesAttempted ==
  /\ \A t \in Tasks : succ[t] + fail[t] <= 1
  /\ (pc = "done" /\ shutdown) =>
       \A t \in Tasks : (tries[t] >= 1 /\ succ[t] = 0) => fail[t] = 1

C10_Witness ==
  /\ pc = "done"
  /\ flagAt = "between_retries"
  /\ still_pending # << >>
  /\ \A t \in SeqSet(still_pending) : tries[t] >= 1 /\ succ[t] = 0 /\ fail[t] = 1
  /\ \E t \in SeqSet(retry_queue) \ SeqSet(still_pending) : fail[t] = 1

\* ---------------------------------------------------------------- C11
\* C11: after any sequence of writes the document holds, for every write, the
\* written record under its (target, dedup_key) -- replacing whatever was there
\* -- and exactly the records it held before under every other pair.
C11_WriteReplacesOnlyItsKey ==
  \A i \in 1..Len(mlog) :
    /\ mdocs[i + 1].results[mlog[i].key] = mlog[i].payload
    /\ \A k \in Keys \ {mlog[i].key} : mdocs[i + 1].results[k] = mdocs[i].results[k]

\* a second write to an occupied pair with another record, next to an occupied
\* pair of the same target and one of another target
C11_Witness ==
  /\ Len(mlog) = 2
  /\ mlog[1].key = mlog[2].key
  /\ mlog[1].payload # mlog[2].payload
  /\ mfile.data.results[mlog[2].key] = mlog[2].payload
  /\ \E k1, k2 \in Keys \ {mlog[2].key} :
       /\ k1[1] = mlog[2].key[1]
       /\ k2[1] # mlog[2].key[1]
       /\ mfile.data.results[k1] # NoRec
       /\ mfile.data.results[k2] # NoRec

\* ---------------------------------------------------------------- C12
\* C12: a write that repeats the write before it (same target, dedup_key,
\* record and title) leaves the document exactly as the first of the two
\* left it.
C12_SecondWriteChangesNothing ==
  \A i \in 1..(Len(mlog) - 1) :
    mlog[i] = mlog[i + 1]
    => /\ mdocs[i + 2] = mdocs[i + 1]
       /\ (i + 1 = Len(mlog) => mfile.data = mdocs[i + 1])

\* the same record written twice, where the first write changed both the
\* title and the record of its pair
C12_Witness ==
  /\ Len(mlog) = 2
  /\ mlog[1] = mlog[2]
  /\ mdocs[1].title = ""
  /\ mlog[1].title # ""
  /\ mdocs[1].results[mlog[1].key] \notin {NoRec, mlog[1].payload}
  /\ mfile.state = "complete"

\* ---------------------------------------------------------------- C13
\* the last two writes went to different (target, dedup_key) pairs
LastTwoDiffer ==
  /\ Len(mlog) >= 2
  /\ mlog[Len(mlog) - 1].key # mlog[Len(mlog)].key

\* the title of the document was empty before the last two writes, and the
\* two records carry different non-empty titles
TitlesCompete ==
  /\ mdocs[Len(mdocs) - 2].title = ""
  /\ mlog[Len(mlog) - 1].title # ""
  /\ mlog[Len(mlog)].title # ""
  /\ mlog[Len(mlog) - 1].title # mlog[Len(mlog)].title

Waiting(i) == { r.n : r \in { q \in SeqSet(buffer \o fpend) : q.id = i } }

\* the writer decides to take a lock file over only when the file's age has
\* reached stale_seconds
TakeOverStep ==
  (fpc = "stat" /\ fpc' = "clear")
    => (flocks[fcur].exists /\ flocks[fcur].age >= StaleSeconds)

\* C14: when the other process died holding the lock of an identifier, a writer
\* that keeps flushing takes the lock file over when its age has reached
\* stale_seconds (and decides so at no smaller age), with no release by the
\* dead holder, and every record it has queued for that identifier gets
\* persisted.
C14_StaleLockReclaimed ==
  /\ [][TakeOverStep]_vars
  /\ \A i \in Contended : \A n \in 1..MaxCalls :
       (holder[i] = "crashed" /\ n \in Waiting(i) /\ n \notin persisted)
         ~> (n \in persisted)

\* the writer has persisted a record under a lock whose first holder is dead
C14_Witness ==
  /\ fpc = "release"
  /\ holder[fcur] = "crashed"
  /\ flocks[fcur].owner = "writer"
  /\ fdoc[fcur] # 0

\* ---------------------------------------------------------------- C15
\* the records issued so far that no flush has persisted
Unwritten == (1..nwrites) \ persisted

\* the numbers of the records of a sequence, and whether they ascend per identifier
Numbers(seq) == { seq[j].n : j \in 1..Len(seq) }

InIssueOrder(seq) ==
  \A a, b \in 1..Len(seq) : (a < b /\ seq[a].id = seq[b].id) => seq[a].n < seq[b].n

FlushInv ==
  /\ acq <= flush_retry_limit
  /\ fpc = "idle" => /\ Numbers(buffer) = Unwritten
                     /\ Len(buffer) = Cardinality(Unwritten)
                     /\ InIssueOrder(buffer)
  /\ fpc # "idle" => /\ buffer = << >>
                     /\ Unwritten \subseteq Numbers(fpend)

\* C15: a flush calls FileLock.acquire at most flush_retry_limit times for one
\* identifier and every write or flush call returns; after the return every
\* record that was not persisted is in the buffer, once and in the order of
\* issue per identifier, and the next flush takes all of them up again.
C15_DeferredNotRaised ==
  /\ []FlushInv
  /\ (fpc # "idle") ~> (fpc = "idle")

\* an immediate write has returned leaving a record in the buffer, and a later
\* flush that persisted a newer record has tried that record again
C15_Witness ==
  /\ fpc = "idle"
  /\ strategy = "immediate"
  /\ flush_retry_limit > 1
  /\ \E j \in 1..Len(buffer) : \E n \in persisted : n > buffer[j].n

\* ---------------------------------------------------------------- C16
\* the plan was built from the entries as they are now
FreshPlan == pphase \in {"planned", "replanned"}

\* identifier x has an entry under the model name and the prompt hash of the plan
Done(x, mdl) == << x, mdl, PromptHash >> \in pentries

\* x could get a task for mdl: no such entry, and a title that is not blank
Eligible(x, mdl) == ~Done(x, mdl) /\ ptitles[x] \notin {"", " "}

\* the planner looks at item j of the share of mdl: the test limit was not
\* reached by the items before it
Examined(mdl, j) ==
  \/ plimit = NoLimit
  \/ Cardinality({ q \in 1..(j - 1) : Eligible(Share(pmodels, mdl)[q], mdl) }) < plimit

\* no model name of the plan carries an instance suffix
PlainModels == \A k \in 1..Len(pmodels) : pmodels[k].inst = 0

\* C16 as stated (for model names without instance suffix): an identifier with
\* an entry under (M, H) gets no task for M and is counted in M's skipped count.
C16_SkippedAndCounted ==
  (FreshPlan /\ PlainModels) =>
    \A mdl \in SeqSet(pmodels) :
      /\ \A x \in SeqSet(PIds) : Done(x, mdl) => x \notin SeqSet(plan[mdl].queued)
      /\ plan[mdl].skipped = Cardinality({ x \in SeqSet(PIds) : Done(x, mdl) })

\* C16: an identifier with an entry under (M, H) gets no task for M; M's
\* skipped count is the number of such identifiers among the items the planner
\* looks at for M; and an item it looks at that has a title and no entry under
\* (M, H) gets a task, whatever entries it has under other targets or hashes.
C16_DedupByTriple ==
  FreshPlan =>
    \A mdl \in SeqSet(pmodels) :
      LET share == Share(pmodels, mdl)
          seen == { j \in 1..Len(share) : Examined(mdl, j) }
      IN /\ \A x \in SeqSet(PIds) : Done(x, mdl) => x \notin SeqSet(plan[mdl].queued)
         /\ plan[mdl].skipped = Cardinality({ j \in seen : Done(share[j], mdl) })
         /\ \A j \in seen : Eligible(share[j], mdl) => share[j] \in SeqSet(plan[mdl].queued)

\* one identifier is skipped and counted for its entry under (M, H); the other
\* has entries under another target and under another hash of M and gets a task
C16_Witness ==
  /\ pphase = "planned"
  /\ pmodels = << ModelM, ModelN >>
  /\ Done("a", ModelM)
  /\ plan[ModelM].skipped = 1
  /\ plan[ModelM].queued = << "b" >>
  /\ << "b", ModelM, "G" >> \in pentries
  /\ << "b", ModelN, PromptHash >> \in pentries

\* ---------------------------------------------------------------- C17
\* C17: after a run has written the result of a task, planning again with the
\* same prompt hash and the same models emits no task for that item and model,
\* instance-suffixed model names included.
C17_NoTaskAfterResult ==
  pphase = "replanned" => \A t \in pdone : t \notin TasksOf(plan)

\* the last call was a send_batch that recovered no record
FailedSend == clast.op = "send" /\ clast.ok = 0

\* the automatic reminder was due when the last call started
DueBefore == AutoReminderDue(clast.active, c_interval, clast.counter)

\* C18 (as stated): a send_batch that recovers no record leaves the session
\* history and the successful-item counter exactly as they were before the call
C18_FailedSendLeavesSession ==
  FailedSend => c_history = clast.history /\ c_counter = clast.counter

\* C18 (amended): a send_batch that recovers no record leaves the counter as it
\* was and adds nothing to the history but the automatic reminder, appended
\* before the request when the counter stood on a non-zero multiple of the
\* interval
C18_FailedSendAddsOnlyDueReminder ==
  FailedSend =>
    /\ c_counter = clast.counter
    /\ c_history = IF DueBefore
                     THEN PruneHistory(Append(clast.history, clast.serial + 1))
                     ELSE clast.history

C18_Witness ==
  /\ FailedSend
  /\ clast.kind = "entries"
  /\ DueBefore
  /\ c_history # clast.history

\* everything the history held before the last call, then what the call appended
Lengthened == clast.history \o Entries(clast.serial + 1, c_serial)

\* C19: after send_batch, an automatic reminder or reinforce_compliance the
\* history is at most HistoryLimit long, and it is the history before the call
\* followed by the appended entries, less exactly the oldest entries beyond the
\* cap, in the same order
C19_HistoryCappedOldestDropped ==
  clast.op \in {"send", "reinforce"} =>
    /\ Len(c_history) <= HistoryLimit
    /\ LET overflow == Len(Lengthened) - HistoryLimit
       IN c_history = IF overflow > 0
                        THEN SubSeq(Lengthened, overflow + 1, Len(Lengthened))
                        ELSE Lengthened

C19_Witness ==
  /\ clast.op = "send"
  /\ c_serial = clast.serial + 3
  /\ Len(clast.history) = HistoryLimit - 1
  /\ Len(c_history) = HistoryLimit
  /\ c_history[1] = clast.history[3]

\* C20: in a session with interval N > 0 the automatic reminders number one for
\* each multiple of N the successful-item count has passed: never more than the
\* multiples passed so far, and after a send_batch no fewer than the multiples
\* passed when it started
C20_OneReminderPerMultiple ==
  (c_active /\ c_interval > 0) =>
    /\ session_auto <= c_counter \div c_interval
    /\ clast.op = "send" => session_auto >= clast.counter \div c_interval

\* the run so far follows the scenario: no shutdown, retry_limit 2, automatic
\* reminders disabled, every identifier but 2 got a record on its first attempt
\* and 2 never got one (between the reply and its routing the attempt is not
\* yet counted: those states are left out)
ScenarioSoFar ==
  /\ pc # "route"
  /\ ~shutdown
  /\ retry_limit = 2
  /\ compliance_interval = 0
  /\ 2 \notin gotRecord
  /\ \A t \in Tasks \ {2} : tries[t] >= 1 => (t \in gotRecord /\ tries[t] = 1)

\* C21: in the scenario (retry_limit 2, no automatic reminders, every identifier
\* but 2 answered on its first attempt, 2 never), whatever the batch size, the
\* finished run has written and counted the others once, has written nothing
\* for 2 and has reported it failed once with 2 attempts; one compliance
\* reminder was issued, and it came after 2's first failure and before its
\* second attempt
C21_ScenarioOutcome ==
  ScenarioSoFar =>
    /\ auto_reminders = 0
    /\ manual_reminders <= 1
    /\ manual_reminders = 1 => tries[2] >= 1
    /\ tries[2] >= 2 => manual_reminders = 1
    /\ pc = "done" =>
         /\ \A t \in Tasks \ {2} : written[t] = 1 /\ succ[t] = 1 /\ fail[t] = 0
         /\ written[2] = 0 /\ succ[2] = 0 /\ fail[2] = 1
         /\ attempts[2] = 2 /\ tries[2] = 2
         /\ manual_reminders = 1

C21_Witness ==
  /\ ScenarioSoFar
  /\ pc = "done"
  /\ max_batch_size = MaxBatchSize
  /\ fail[2] = 1
  /\ \A t \in Tasks \ {2} : written[t] = 1

\* C22: once the main thread calls finalize it comes back with the final summary
\* emitted, and a handler that calls handle_shutdown_signal returns from it,
\* whatever the periodic thread is doing at that moment; stated for runs in
\* which no signal interrupts finalize itself (signals = 0) and, for the
\* snapshot, for a handler that is not itself interrupted by a second signal
C22_FinalSummaryCompletes ==
  /\ (mainpc = "finalize_acquire" /\ signals = 0) ~> (finals = 1 \/ signals > 0)
  /\ (Len(handlers) = 1 /\ handlers[1] = "snapshot" /\ mainpc = "run")
       ~> (handlers = << >> \/ Len(handlers) > 1)

\* C30: a delivered signal sets the shutdown flag, and its handler flushes,
\* emits at most one snapshot in all, and returns, wherever the main thread
\* was interrupted
C30_HandlerReturns ==
  /\ [](snapshots <= 1)
  /\ [](handlers # << >> /\ handlers[1] # "set" => shutdown_event)
  /\ \A d \in 1..MaxSignals :
       (Len(handlers) = d /\ handlers[d] = "set") ~> (Len(handlers) < d)

\* the run went on without a shutdown request
Undisturbed == ~run_shutdown

\* C23: a worker whose processing raised has had its session closed by
\* close_session, once; when run() returns every thread has ended, the summary
\* is logged and (without a shutdown request) every worker that did not raise
\* has emptied its own queue; and after a raise run() does return
C23_RaiseStopsOnlyItsWorker ==
  /\ [](\A t \in RunTargets :
          (traised[t] /\ tpc[t] = "ended") => (~tsession[t] /\ tcloses[t] = 1))
  /\ [](run_main = "returned" =>
          /\ run_logged
          /\ \A t \in RunTargets :
               /\ tpc[t] \in {"unstarted", "ended"}
               /\ (Undisturbed /\ ~traised[t]) => tpending[t] = 0)
  /\ (\E t \in RunTargets : traised[t]) ~> (run_main = "returned")

C23_Witness ==
  /\ run_main = "returned"
  /\ Undisturbed
  /\ traised[1] /\ tcloses[1] = 1 /\ ~tsession[1]
  /\ ~traised[2] /\ tsent[2] >= 2 /\ tdecided[2] = tsent[2] /\ tpending[2] = 0

\* the batch numbers in h go up from front to back
Ascending(h) == \A i \in 1..Len(h) : \A j \in 1..Len(h) : i < j => h[i] < h[j]

\* C24: a target never has more than one worker thread and its connector never
\* more than one request in flight; a request is out only when every earlier
\* batch has been routed and its retries decided; the session history holds the
\* exchanges in the order their batches were sent
C24_OneWorkerOneRequest ==
  \A t \in RunTargets :
    /\ tthreads[t] <= 1
    /\ tinflight[t] <= 1
    /\ tinflight[t] = 1 <=> tpc[t] = "await"
    /\ tpc[t] \in {"await", "route"} => tdecided[t] = tsent[t] - 1
    /\ tpc[t] \in {"top", "send"} => tdecided[t] = tsent[t]
    /\ Ascending(thistory[t])

C24_Witness ==
  /\ tpc[1] = "await" /\ tsent[1] = 2 /\ thistory[1] = << 1 >>
  /\ tpc[2] = "await"

\* the first non-empty string of a sequence of titles, "" when there is none
RECURSIVE FirstNonEmpty(_)
FirstNonEmpty(ts) ==
  IF ts = << >> THEN ""
  ELSE IF ts[1] # "" THEN ts[1] ELSE FirstNonEmpty(Tail(ts))

\* the title the file started with, then the titles written, in order
TitlesStored == << mdocs[1].title >> \o [i \in 1..Len(mlog) |-> mlog[i].title]

\* the part of C25 that concerns core.writer
CoreTitleIsFirstNonEmpty == mdocs[Len(mdocs)].title = FirstNonEmpty(TitlesStored)

\* C25: after any sequence of writes the title of the document is the first
\* non-empty title stored (the one the file had, or else the first non-empty
\* one written), in core.writer and in llmplotbot.results alike
C25_TitleIsFirstNonEmpty ==
  /\ CoreTitleIsFirstNonEmpty
  /\ mtitle.value = FirstNonEmpty(TitlesStored)

\* C26: when objects were parsed, send_batch returns one entry per headline, in
\* request order: item i up to min(n, m) gets what record i gives (the record,
\* or nothing when it is rejected), the items past m get nothing, objects past n
\* are ignored and counted as one warning, and the worker puts exactly the items
\* without a record into the retry queue and writes the others
C26_RecordsMapByPosition ==
  (sb_pc # "send" /\ sb_entries # << >>) =>
    /\ sb_returned = "list"
    /\ Len(sb_results) = sb_headlines
    /\ \A i \in 1..sb_headlines :
         sb_results[i] = IF i <= Len(sb_entries)
                           THEN ResultOf(sb_entries[i], sb_language)
                           ELSE NoResult
    /\ sb_warnings = (IF Len(sb_entries) > sb_headlines THEN 1 ELSE 0)
    /\ sb_pc = "routed" =>
         /\ sb_retry = { i \in 1..sb_headlines : sb_results[i] = NoResult }
         /\ sb_written = (1..sb_headlines) \ sb_retry
         /\ \A i \in 1..sb_headlines : i > Len(sb_entries) => i \in sb_retry

C26_Witness ==
  /\ sb_pc = "routed"
  /\ sb_headlines = 2
  /\ Len(sb_entries) = 1
  /\ sb_written = {1}
  /\ sb_retry = {2}

\* C27: a record is accepted only if, after coercion, every required scalar
\* field is a non-empty string and every required list field is a list
C27_AcceptedOnlyIfComplete ==
  \A i \in 1..Len(sb_results) :
    sb_results[i] # NoResult =>
      /\ \A k \in REQUIRED_KEYS \ LIST_KEYS :
           sb_results[i].fields[k].type = "str" /\ sb_results[i].fields[k].text # ""
      /\ \A k \in LIST_KEYS : sb_results[i].fields[k].type = "list"

\* C28: the current batch size of the worker always lies between 1 and the
\* configured maximum, it is the maximum until the first batch has been sent,
\* and a batch that is out holds between 1 and current-size tasks
C28_BatchSizeWithinBounds ==
  /\ 1 <= current_batch_size
  /\ current_batch_size <= max_batch_size
  /\ requests = 0 => current_batch_size = max_batch_size
  /\ pc \in {"send", "route"} =>
       (1 <= Len(batch) /\ Len(batch) <= current_batch_size)

C28_Witness ==
  /\ pc = "send"
  /\ max_batch_size = MaxBatchSize
  /\ current_batch_size = 1
  /\ Len(batch) = 1
  /\ Len(pending) >= 1

RECURSIVE SumOver(_, _)
SumOver(S, f) ==
  IF S = {} THEN 0
  ELSE LET x == CHOOSE y \in S : TRUE IN f[x] + SumOver(S \ {x}, f)

Balanced(s) == s.processed = s.success + s.failed

\* the number of calls of _record_task_metrics that have left the lock
CallsCounted == SumOver(MetricWorkers, [w \in MetricWorkers |-> IF rpc[w] \in {"global", "model"} THEN rcalls[w] - 1 ELSE rcalls[w]])

\* C29: each finalization appends exactly one outcome record; whenever the
\* statistics can be read (the lock is free: every reader takes it), processed
\* equals success plus failed for the run and for each target, the counters of
\* the run are the sums of the counters of the targets, and the collector's
\* cumulative count is the number of records appended
C29_CountersConsistent ==
  /\ \A w \in MetricWorkers :
       rappended[w] = IF rpc[w] \in {"idle", "done", "parked"} THEN rcalls[w] ELSE rcalls[w] - 1
  /\ stats_lock = Free =>
       /\ Balanced(stats)
       /\ \A a \in Aliases : Balanced(per_model[a])
       /\ stats.processed = SumOver(Aliases, [a \in Aliases |-> per_model[a].processed])
       /\ stats.success = SumOver(Aliases, [a \in Aliases |-> per_model[a].success])
       /\ stats.failed = SumOver(Aliases, [a \in Aliases |-> per_model[a].failed])
       /\ stats.processed = CallsCounted
  /\ total_recorded = SumOver(MetricWorkers, [w \in MetricWorkers |-> rappended[w]])
  /\ ~collector_finalized => Len(collector_records) = total_recorded

\* two workers sharing one alias have both finalized a task, one failed and
\* one succeeded, and the collector has been finalized
C29_Witness ==
  /\ collector_finalized
  /\ model_aliases["first"] = model_aliases["second"]
  /\ total_recorded >= 3
  /\ stats.success > 0
  /\ stats.failed > 0

\* C31: after a batch that failed as a whole the pending request error tells
\* the class: "transport" after a failed post, "http" after a status >= 400,
\* none after an unparseable reply; pop_last_request_error hands it to the
\* worker once and clears it, so the error of one batch is never seen after
\* a later batch
C31_FailureClassesTold ==
  /\ pc = "route" => request_error = (IF lastB.kind \in {"transport", "http"} THEN lastB.kind ELSE "none")
  /\ pc # "route" => request_error = "none"
  /\ (pc # "route" /\ requests > 0) =>
       popped_error = (IF lastB.kind \in {"transport", "http"} THEN lastB.kind ELSE "none")

\* an HTTP error was popped for one batch and the next batch, whose reply could
\* not be parsed, has been routed with no error popped
C31_Witness ==
  /\ pc # "route"
  /\ requests >= 2
  /\ prevB.kind = "http"
  /\ lastB.kind = "parse"
  /\ popped_error = "none"

\* ---------------------------------------------------------------- C32
\* a step that is a call of write
IsWrite == nwrites' = nwrites + 1

\* the record that the call queues
Queued == [id |-> CHOOSE i \in Idents : Append(buffer, [id |-> i, n |-> nwrites + 1]) \in {buffer', fpend'},
           n |-> nwrites + 1]

\* write under the batched strategy below both thresholds only appends; at the
\* size threshold or past the time threshold it starts a flush of the whole
\* buffer; under the immediate strategy it always does
WriteStep ==
  IsWrite =>
    /\ (strategy = "batched" /\ Len(buffer) + 1 < FlushInterval /\ since_flush < FlushSeconds)
         => (buffer' = Append(buffer, Queued) /\ fpc' = "idle" /\ persisted' = persisted
             /\ since_flush' = since_flush)
    /\ (strategy = "immediate" \/ Len(buffer) + 1 >= FlushInterval \/ since_flush > FlushSeconds)
         => (fpend' = Append(buffer, Queued) /\ buffer' = << >> /\ fpc' = "group")

\* no identifier occurs twice
OncePerIdent(seq) == \A a, b \in 1..Len(seq) : seq[a] = seq[b] => a = b

\* during a flush each identifier of the pending records gets one cycle: it is
\* still to come, or under way, or over with all of its records either
\* persisted or on the failed list
FlushCycles ==
  fpc # "idle" =>
    /\ OncePerIdent(grouped)
    /\ fpc # "group" => fcur \notin SeqSet(grouped)
    /\ \A r \in SeqSet(fpend) :
         \/ r.id \in SeqSet(grouped)
         \/ fpc \notin {"group", "release"} /\ r.id = fcur
         \/ r.n \in persisted
         \/ r \in SeqSet(failed)
    /\ (fpc = "group" /\ grouped = << >> /\ failed = << >>) => Numbers(fpend) \subseteq persisted

\* the flush returns with the failed records, and with nothing else, in the buffer
FlushReturn ==
  (fpc = "group" /\ fpc' = "idle") =>
    /\ buffer' = failed
    /\ failed = << >> => buffer' = << >>
    /\ Numbers(fpend) \subseteq persisted \cup Numbers(failed)

\* C32: under the batched strategy a write below the size and time thresholds
\* only appends to the buffer, and a write at a threshold flushes; a flush takes
\* every buffered record, runs one lock/read/write cycle per identifier,
\* leaves the buffer empty when every group persisted, and persists the other
\* groups when one group fails; under the immediate strategy every write
\* flushes before it returns
C32_BufferedUntilThreshold ==
  /\ [][WriteStep /\ FlushReturn]_vars
  /\ []FlushCycles

\* a batched flush of two identifiers ends: the group of the first identifier
\* failed and the record of the second, handled after it, is persisted
C32_Witness ==
  /\ strategy = "batched"
  /\ fpc = "group"
  /\ grouped = << >>
  /\ failed # << >>
  /\ \E r \in SeqSet(fpend) :
       /\ r.id # fpend[1].id
       /\ r.n \in persisted
       /\ fpend[1] \in SeqSet(failed)

\* ---------------------------------------------------------------- C33
\* the numbers of the records the writer holds: queued, or taken up by a flush
Held == Numbers(buffer) \cup Numbers(fpend)

\* C33: a record whose persistence keeps failing on lock timeout is tried a
\* bounded number of times in total and then removed from the buffer: every
\* record the writer holds leaves it at last, persisted or dropped.
C33_DroppedAfterBoundedAttempts ==
  \A n \in 1..MaxCalls : (n \in Held) ~> (n \notin Held)

\* ---------------------------------------------------------------- C34
\* the step in which worker w leaves _update_counters and maybe_checkpoint
UpdateOf(w) == ppc[w] = "update" /\ ppc'[w] = "top"

\* maybe_checkpoint writes exactly when the outcomes since the last checkpoint
\* have reached jobs_per_checkpoint or interval_seconds have gone by, then
\* resets counter and timer; the checkpoint carries the job and the totals of
\* the outcome that triggered it; nothing else writes a checkpoint
CheckpointStep ==
  /\ \A w \in PoolWorkers : UpdateOf(w) =>
       IF \/ processed_since_checkpoint + 1 >= jobs_per_checkpoint
          \/ ck_elapsed >= interval_seconds
         THEN /\ Len(checkpoints') = Len(checkpoints) + 1
              /\ SubSeq(checkpoints', 1, Len(checkpoints)) = checkpoints
              /\ checkpoints'[Len(checkpoints')] =
                   [last_job_id |-> pjob[w],
                    total_completed |-> pool_completed',
                    total_failed |-> pool_failed',
                    pending |-> ppending[w]]
              /\ pool_completed' + pool_failed' = pool_completed + pool_failed + 1
              /\ processed_since_checkpoint' = 0
              /\ ck_elapsed' = 0
         ELSE /\ checkpoints' = checkpoints
              /\ processed_since_checkpoint' = processed_since_checkpoint + 1
              /\ ck_elapsed' = ck_elapsed
  /\ (checkpoints' # checkpoints /\ pruns' = pruns) => \E w \in PoolWorkers : UpdateOf(w)

\* the counts of completed and of failed jobs never go down from one
\* checkpoint to the next
CountsNeverDecrease ==
  \A a, b \in 1..Len(checkpoints) :
    a < b => /\ checkpoints[a].total_completed <= checkpoints[b].total_completed
             /\ checkpoints[a].total_failed <= checkpoints[b].total_failed

\* the same of the pending count
PendingNeverDecreases ==
  \A a, b \in 1..Len(checkpoints) :
    a < b => checkpoints[a].pending <= checkpoints[b].pending

\* C34 as stated: checkpoints are written exactly on the dual threshold and
\* carry the totals of the triggering outcome, and completed, failed and
\* pending never decrease from one checkpoint to the next
C34_CheckpointTotalsNeverDecrease ==
  /\ [][CheckpointStep]_vars
  /\ [](CountsNeverDecrease /\ PendingNeverDecreases)

\* C34 amended: checkpoints are written exactly on the dual threshold and
\* carry the totals of the triggering outcome; completed and failed never
\* decrease from one checkpoint to the next (pending is the number of jobs
\* still queued when the outcome was counted, and goes down as jobs are taken)
C34_CheckpointOnDualThreshold ==
  /\ [][CheckpointStep]_vars
  /\ []CountsNeverDecrease

\* with two outcomes per checkpoint, both outcomes of a run wrote a checkpoint
\* (so the timer triggered), and the second carries fewer pending jobs
C34_Witness ==
  /\ jobs_per_checkpoint = 2
  /\ Len(checkpoints) = 2
  /\ checkpoints[2].pending < checkpoints[1].pending
  /\ checkpoints[2].total_completed + checkpoints[2].total_failed = 2

\* ---------------------------------------------------------------- C40
\* worker w has marked its job after the shutdown cut the job short and no
\* model had produced a result
CutShort(w) == ppc[w] \in {"read", "update"} /\ pcut[w] /\ psucc[w] = 0

\* fetch_job hands out no job that was completed or failed before
FetchStep ==
  \A w \in PoolWorkers :
    (ppc[w] = "fetch" /\ ppc'[w] = "model") => pjob'[w] \notin pfinished

\* C40: a job that a worker had fetched when the shutdown was triggered, and
\* for which no model produced a result because of the shutdown, is left
\* 'processing' or 'pending', not 'failed', so that the next run takes it up
\* again; and fetch_job never hands out a job already completed or failed
C40_InterruptedJobRunsAgain ==
  /\ [](\A w \in PoolWorkers :
          CutShort(w) => job_status[pjob[w]] \in {"processing", "pending"})
  /\ [][FetchStep]_vars

\* ---------------------------------------------------------------- C35
\* C35: for every reply the extraction does not raise: it returns the
\* unparseable signal or a non-empty list of objects in the order of the
\* reply, namely what the first successful step of the cascade (direct parse
\* of the trimmed text without fences, array of squashed objects, fragments)
\* yields
C35_ExtractionNeverRaises ==
  ex_pc = "extracted" =>
    /\ ex_result # Raised
    /\ \/ ex_result = Unparseable
       \/ /\ ex_result.kind = "entries"
          /\ ex_result.entries # << >>
          /\ \A j \in 1..Len(ex_result.entries) : ex_result.entries[j] \in {"o1", "o2"}
    /\ (ex_raw = "json" /\ ex_envelope /\ Direct(ex_content) = Fail /\ Squash(ex_content) = Fail)
         => (ex_result.entries = SelectSeq(ex_content, LAMBDA t : t \in {"o1", "o2"}))

\* ---------------------------------------------------------------- C36
\* C36: without shutdown the worker sends at most n * retry_limit batches,
\* its pending queue becomes empty and it closes the session and stops,
\* whatever the backend answers; with retry_limit <= 0 it sends nothing and
\* records every task as failed with 0 attempts
SendsBounded == ~shutdown => requests <= NTasks * retry_limit

NothingSentAtZero ==
  (retry_limit <= 0 /\ pc = "done" /\ flagAt \in {"unset", "done"}) =>
    /\ requests = 0
    /\ \A t \in Tasks : fail[t] = 1 /\ succ[t] = 0 /\ tries[t] = 0 /\ attempts[t] = 0

Stopped == pc = "done" /\ pending = << >> /\ ~active

C36_WorkerTerminates ==
  /\ [](SendsBounded /\ NothingSentAtZero)
  /\ <>(shutdown \/ Stopped)

C36_Witness ==
  /\ ~shutdown
  /\ Stopped
  /\ retry_limit = MaxRetryLimit
  /\ requests = NTasks * retry_limit

\* ---------------------------------------------------------------- C37
\* C37: FileLock.release removes a lock file only when the releasing holder
\* created it: a holder whose lock was reclaimed as stale while it worked
\* never deletes the lock file of the writer that holds the lock now
ForeignRelease(w) == Release(w) /\ lock.exists /\ lock.pid # w

C37_ReleaseOnlyOwnLock == [][~(\E w \in Writers : ForeignRelease(w))]_vars

\* ---------------------------------------------------------------- C38
\* C38: deferred writes keep their order: when a record that could not be
\* persisted is still buffered at a later write of the same triple, the next
\* successful flush leaves the later record in the document; an older record
\* is never persisted after a newer one of its triple and never overwrites it
NewerKept ==
  \A i \in Idents :
    fdoc'[i] # fdoc[i] =>
      /\ fdoc'[i] > fdoc[i]
      /\ \A j \in 1..Len(fpend) : fpend[j].id = i => fpend[j].n <= fdoc'[i]

C38_DeferredWritesKeepOrder == [][NewerKept]_vars

\* a record deferred by an immediate write was persisted together with a
\* later record of its triple
C38_Witness ==
  /\ strategy = "immediate"
  /\ fpc = "release"
  /\ Len(RecordsOf(fpend, fcur)) >= 2
  /\ fdoc[fcur] = RecordsOf(fpend, fcur)[Len(RecordsOf(fpend, fcur))].n

\* ---------------------------------------------------------------- C39
\* C39: finalize is idempotent: the first call writes one final summary and
\* one raw dump, every later call returns that summary and writes nothing;
\* a report, maybe_report or handle_shutdown_signal called after finalization
\* writes no snapshot, and a record_task called then adds no record and
\* returns the cumulative count as it was
WrittenOnce ==
  /\ fz_written.finals <= 1
  /\ fz_written.dumps <= 1
  /\ fz_done => (fz_written.finals = 1 /\ fz_written.dumps = 1 /\ fz_final_summary.some)

\* a step of a call that began after a finalize call had returned
LateStep(c) == fz_after[c] /\ fz_pc[c] # "idle" /\ fz_pc'[c] # fz_pc[c]

NothingAfterFinal ==
  \A c \in Callers :
    LateStep(c) =>
      /\ fz_written' = fz_written
      /\ fz_records' = fz_records
      /\ fz_total' = fz_total
      /\ fz_final_summary' = fz_final_summary
      /\ fz_pc[c] = "fz_acquire" => fz_ret'[c] = [call |-> "finalize", value |-> fz_final_summary]
      /\ fz_pc[c] = "rc_record" => fz_ret'[c] = [call |-> "record", value |-> SummaryOf(fz_total)]

C39_FinalizeIdempotent == []WrittenOnce /\ [][NothingAfterFinal]_vars

\* a second finalize has returned the summary of the first, which covers a
\* record, and a report called after it has returned as well
C39_Witness ==
  /\ fz_after["main"] /\ fz_pc["main"] = "idle"
  /\ fz_ret["main"] = [call |-> "finalize", value |-> fz_final_summary]
  /\ fz_final_summary.total > 0
  /\ fz_after["worker"] /\ fz_pc["worker"] = "idle"
  /\ fz_ret["worker"].call = "report"
====
